---- MODULE Spec2Model ----
(***************************************************************************)
(* Atlantis: the project lock store (BoltLocker), the workspace on disk,   *)
(* and the plan / apply / lock-delete / pull-close handlers that use them. *)
(*                                                                         *)
(* Strings whose content matters (repo full names, project paths,          *)
(* workspaces, lock keys) are sequences of one-character strings, so that  *)
(* fmt.Sprintf, bytes.HasPrefix and the byte order of the Bolt cursor are  *)
(* computed and not assumed.                                               *)
(***************************************************************************)
EXTENDS Integers, Sequences, FiniteSets, TLC

VARIABLES
    locks,      \* the "runLocks" bucket: key -> serialized ProjectLock
    ubp,        \* the UnlockByPull call in flight (between its View and its last Unlock)
    ret,        \* what the last lock-store call or handler returned
    pullState,  \* hosting platform: pull -> "open" | "closed"
    dirs,       \* clone directories {dataDir}/repos/{repo}/{num}/{workspace} that exist
    plans,      \* plan artifacts {cloneDir}/{path}/{workspace}.tfplan that exist
    applied,    \* history: the held keys whose plan an apply has carried out
    wdLocks,    \* the working dir locker: the (repo, pull, workspace) keys that are taken
    cmds,       \* command handler: the commands that hold a worker and the working dir lock
    srv,        \* Server.Start and the drainer: where the shutdown has got to
    tf,         \* crashSafeExec: the call, the child process and the pipe between them
    tfdir,      \* a project directory: terraform's workspaces and the .tfplan-error files
    pullsBucket \* the "pulls" bucket: pull key -> the stored PullStatus

vars == <<locks, ubp, ret, pullState, dirs, plans, applied, wdLocks, cmds, srv, tf, tfdir, pullsBucket>>

----------------------------------------------------------------------------
(* Bounds *)

\* pull requests of a repo: numbers 1..MaxPull
MaxPull == 2

----------------------------------------------------------------------------
(* The universe the handlers draw their inputs from *)

RepoA == <<"o", "/", "r">>
\* a repo whose full name starts with RepoA's
RepoB == <<"o", "/", "r", "2">>
Repos == {RepoA, RepoB}

PathA == <<"a">>
PathB == <<"b">>
Paths == {PathA, PathB}

WsDefault == <<"d">>
Workspaces == {WsDefault}

\* a second workspace
WsStaging == <<"s">>
CmdWorkspaces == {WsDefault, WsStaging}

Users == {"alice", "bob"}

\* the request workers that run the command handler
Workers == {"w1", "w2"}

\* the drainer before any command: not shutting down, nothing in progress
NoOps == [ShuttingDown |-> FALSE, InProgressOps |-> 0]

\* no "current in-progress ops" line logged yet
NoLog == -1

\* Server.Start once the listener goroutine is up and Start blocks on <-stop
Serving == [pc |-> "serving", goroutine |-> "none", drainer |-> NoOps,
            drainComplete |-> 0, logged |-> NoLog]

\* crashSafeExec before it is called: no child, no pipe, nothing read
NotRun == [pc |-> "idle", child |-> "none", script |-> <<>>, crash |-> FALSE,
           pipe |-> <<>>, pw |-> FALSE, held |-> FALSE, outputLines |-> <<>>,
           err |-> "nil"]

\* no file at a path
NoFile == [there |-> FALSE, bytes |-> <<>>]

\* no Run yet
NoRun == [ran |-> FALSE, err |-> "nil", output |-> <<>>]

\* a project directory before any plan: terraform is in the workspace
\* "default", the only one there is; no .tfplan-error file; lastRun is
\* history: how the most recent Run of each workspace ended
NoTfDir == [current |-> WsDefault, existing |-> {WsDefault},
            errorFile |-> [w \in CmdWorkspaces |-> NoFile],
            lastRun |-> [w \in CmdWorkspaces |-> NoRun]]

PullNums == 1..MaxPull

\* models.Repo{} : the zero value of a repo, whose FullName is ""
NoRepo == <<>>

\* no UnlockByPull between its View and its return
Idle == [pc |-> "idle"]

\* the projects (models.Project) of the two repos
Projects == {[RepoFullName |-> r, Path |-> p] : r \in Repos, p \in Paths}

\* the projects the concurrent callers of the lock store ask about
LockProjects ==
    {[RepoFullName |-> RepoA, Path |-> PathA],
     [RepoFullName |-> RepoB, Path |-> PathA]}

\* models.PullRequest as stored in a lock: its number and its BaseRepo.
\* ParseGithubPull fills BaseRepo; ParseGitlabMergeRequest leaves it zero.
PullOf(repo, num) ==
    [Num |-> num, BaseRepo |-> IF repo = RepoA THEN repo ELSE NoRepo]

\* the pull requests: those of RepoA (on GitHub), and a merge request of RepoB
\* (on GitLab) that has the number of a pull of RepoA
Pulls == ({RepoA} \X PullNums) \cup {<<RepoB, 1>>}

----------------------------------------------------------------------------
(* Strings *)

\* byte order of the characters used ('/' < '2' < 'a' < 'b' < 'd' < 'o' < 'r' < 's')
CharRank(c) ==
    CASE c = "/" -> 47
      [] c = "2" -> 50
      [] c = "a" -> 97
      [] c = "b" -> 98
      [] c = "d" -> 100
      [] c = "o" -> 111
      [] c = "r" -> 114
      [] c = "s" -> 115

\* bytes.HasPrefix(s, prefix)
HasPrefix(s, prefix) ==
    /\ Len(prefix) <= Len(s)
    /\ SubSeq(s, 1, Len(prefix)) = prefix

\* bytes.Compare(a, b) < 0 : the order in which a Bolt cursor walks the keys
RECURSIVE BytesLess(_, _)
BytesLess(a, b) ==
    IF a = <<>> THEN b # <<>>
    ELSE IF b = <<>> THEN FALSE
    ELSE IF Head(a) # Head(b) THEN CharRank(Head(a)) < CharRank(Head(b))
    ELSE BytesLess(Tail(a), Tail(b))

\* the keys of S in cursor order
RECURSIVE CursorOrder(_)
CursorOrder(S) ==
    IF S = {} THEN <<>>
    ELSE LET first == CHOOSE k \in S : \A o \in S \ {k} : BytesLess(k, o)
         IN  <<first>> \o CursorOrder(S \ {first})

\* fmt.Sprintf("%s/%s/%s", p.RepoFullName, p.Path, workspace)
lockKey(p, workspace) ==
    p.RepoFullName \o <<"/">> \o p.Path \o <<"/">> \o workspace

----------------------------------------------------------------------------
(* ProjectLock and its serialization *)

\* the lock a caller hands to TryLock; Time is time.Now(), in the Local location
NewLock(project, workspace, pull, user) ==
    [Project   |-> project,
     Workspace |-> workspace,
     Pull      |-> pull,
     User      |-> user,
     Time      |-> [at |-> "now", loc |-> "Local"]]

\* json.Marshal(lock): every field is kept; the time is written as an instant
\* with a numeric offset, its Location is not
Marshal(lock) == [lock EXCEPT !.Time.loc = "offset"]

\* json.Unmarshal(bytes, &lock): the time comes back in a location made from
\* the written offset (golang/go#19486), which is why GetLock calls Local()
Unmarshal(bytes) == [bytes EXCEPT !.Time.loc = "fixed"]

\* lock.Time.Local()
Local(lock) == [lock EXCEPT !.Time.loc = "Local"]

\* no lock (a nil *ProjectLock, or the zero ProjectLock)
NoLock == [Project |-> [RepoFullName |-> <<>>, Path |-> <<>>],
           Workspace |-> <<>>,
           Pull |-> [Num |-> 0, BaseRepo |-> NoRepo],
           User |-> "",
           Time |-> [at |-> "zero", loc |-> "UTC"]]

----------------------------------------------------------------------------
(* BoltLocker: each operator is one Bolt transaction on the bucket b *)

\* bucket.Get(key) != nil
Has(b, key) == key \in DOMAIN b

\* bucket.Put(key, value)
Put(b, key, value) == [k \in DOMAIN b \cup {key} |-> IF k = key THEN value ELSE b[k]]

\* bucket.Delete(key)
Delete(b, key) == [k \in DOMAIN b \ {key} |-> b[k]]

\* a TryLock that puts the new lock whatever the bucket holds
TryLockAlwaysPuts(b, newLock) ==
    LET key == lockKey(newLock.Project, newLock.Workspace)
    IN  [bucket |-> Put(b, key, Marshal(newLock)), acquired |-> TRUE, lock |-> newLock]

\* a TryLock that tells the holder's own pull request that it acquired the key
TryLockReentrant(b, newLock) ==
    LET key == lockKey(newLock.Project, newLock.Workspace)
    IN  IF ~Has(b, key)
        THEN [bucket |-> Put(b, key, Marshal(newLock)), acquired |-> TRUE, lock |-> newLock]
        ELSE [bucket |-> b,
              acquired |-> Unmarshal(b[key]).Pull = newLock.Pull,
              lock |-> Unmarshal(b[key])]

\* a TryLock that refreshes the stored lock when the key is taken
TryLockOverwrites(b, newLock) ==
    LET key == lockKey(newLock.Project, newLock.Workspace)
    IN  IF ~Has(b, key)
        THEN [bucket |-> Put(b, key, Marshal(newLock)), acquired |-> TRUE, lock |-> newLock]
        ELSE [bucket |-> Put(b, key, Marshal(newLock)), acquired |-> FALSE,
              lock |-> Unmarshal(b[key])]

\* BoltLocker.TryLock: (bucket after, lockAcquired, currLock)
TryLock(b, newLock) ==
    LET key == lockKey(newLock.Project, newLock.Workspace)
    IN  IF ~Has(b, key)
        THEN [bucket |-> Put(b, key, Marshal(newLock)), acquired |-> TRUE, lock |-> newLock]
        ELSE [bucket |-> b, acquired |-> FALSE, lock |-> Unmarshal(b[key])]

\* an Unlock that reports the lock and leaves it in the bucket
UnlockKeeps(b, p, workspace) ==
    LET key == lockKey(p, workspace)
    IN  [bucket |-> b,
         found  |-> Has(b, key),
         lock   |-> IF Has(b, key) THEN Unmarshal(b[key]) ELSE NoLock]

\* BoltLocker.Unlock: (bucket after, foundLock, the deleted lock)
Unlock(b, p, workspace) ==
    LET key == lockKey(p, workspace)
    IN  [bucket |-> Delete(b, key),
         found  |-> Has(b, key),
         lock   |-> IF Has(b, key) THEN Unmarshal(b[key]) ELSE NoLock]

\* BoltLocker.GetLock: the lock at the key in Local time, or nil
GetLock(b, p, workspace) ==
    LET key == lockKey(p, workspace)
    IN  IF Has(b, key) THEN Local(Unmarshal(b[key])) ELSE NoLock

\* c.Seek(prefix): the index in the ordered keys of the first key >= prefix
RECURSIVE Seek(_, _, _)
Seek(keys, prefix, i) ==
    IF i > Len(keys) \/ ~BytesLess(keys[i], prefix) THEN i
    ELSE Seek(keys, prefix, i + 1)

\* for k := c.Seek(prefix); k != nil && bytes.HasPrefix(k, prefix); k = c.Next():
\* the keys the loop visits, from index i on
RECURSIVE WhilePrefix(_, _, _)
WhilePrefix(keys, prefix, i) ==
    IF i > Len(keys) \/ ~HasPrefix(keys[i], prefix) THEN <<>>
    ELSE <<keys[i]>> \o WhilePrefix(keys, prefix, i + 1)

\* the View transaction of UnlockByPull: the locks under the keys that start
\* with repoFullName, in cursor order, whose pull has the number pullNum
UnlockByPullView(b, repoFullName, pullNum) ==
    LET keys == CursorOrder(DOMAIN b)
        seen == WhilePrefix(keys, repoFullName, Seek(keys, repoFullName, 1))
    IN  SelectSeq([i \in 1..Len(seen) |-> Unmarshal(b[seen[i]])],
                  LAMBDA l : l.Pull.Num = pullNum)

\* the loop of UnlockByPull: one b.Unlock per lock the View collected
RECURSIVE UnlockEach(_, _)
UnlockEach(b, ls) ==
    IF ls = <<>> THEN b
    ELSE UnlockEach(Unlock(b, Head(ls).Project, Head(ls).Workspace).bucket, Tail(ls))

\* an UnlockByPull that forgets what it removed
UnlockByPullReturnsNone(b, repoFullName, pullNum) ==
    LET ls == UnlockByPullView(b, repoFullName, pullNum)
    IN  [bucket |-> UnlockEach(b, ls), locks |-> <<>>]

\* BoltLocker.UnlockByPull when no other transaction runs in between:
\* (bucket after, the locks it returns)
UnlockByPull(b, repoFullName, pullNum) ==
    LET ls == UnlockByPullView(b, repoFullName, pullNum)
    IN  [bucket |-> UnlockEach(b, ls), locks |-> ls]

----------------------------------------------------------------------------
(* The lock store under concurrent callers.  TryLock and Unlock are one     *)
(* db.Update each; UnlockByPull is a db.View followed by one db.Update per  *)
(* lock it saw, and other transactions run in between.                     *)


\* the caller's lock: locking.Client builds it from the project, the
\* workspace, the pull and the user, with time.Now()
LockInputs ==
    UNION {{NewLock(p, w, PullOf(q[1], q[2]), u) :
                q \in {x \in Pulls : x[1] = p.RepoFullName},
                w \in Workspaces, u \in Users} : p \in LockProjects}

CallTryLock(newLock) ==
    LET res == TryLock(locks, newLock)
    IN  /\ locks' = res.bucket
        /\ ret' = [op |-> "TryLock", newLock |-> newLock,
                   acquired |-> res.acquired, lock |-> res.lock]
        /\ UNCHANGED <<ubp, pullState, dirs, plans, applied, wdLocks, cmds, srv, tf, tfdir, pullsBucket>>

CallUnlock(p, w) ==
    LET res == Unlock(locks, p, w)
    IN  /\ locks' = res.bucket
        /\ ret' = [op |-> "Unlock", project |-> p, workspace |-> w,
                   found |-> res.found, lock |-> res.lock]
        /\ UNCHANGED <<ubp, pullState, dirs, plans, applied, wdLocks, cmds, srv, tf, tfdir, pullsBucket>>

\* UnlockByPull, lines 176-193: the View transaction
CallUnlockByPullView(repoFullName, pullNum) ==
    /\ ubp.pc = "idle"
    /\ ubp' = [pc |-> "unlocking", repo |-> repoFullName, num |-> pullNum,
               locks |-> UnlockByPullView(locks, repoFullName, pullNum),
               i |-> 1, removed |-> {}]
    /\ ret' = [op |-> "UnlockByPull.View"]
    /\ UNCHANGED <<locks, pullState, dirs, plans, applied, wdLocks, cmds, srv, tf, tfdir, pullsBucket>>

\* UnlockByPull, lines 196-200: one b.Unlock of the loop.  removed collects
\* what the Unlocks of this call deleted from the bucket.
CallUnlockByPullUnlock ==
    /\ ubp.pc = "unlocking"
    /\ ubp.i <= Len(ubp.locks)
    /\ LET lock == ubp.locks[ubp.i]
           res  == Unlock(locks, lock.Project, lock.Workspace)
       IN  /\ locks' = res.bucket
           /\ ubp' = [ubp EXCEPT !.i = @ + 1,
                                 !.removed = IF res.found THEN @ \cup {res.lock} ELSE @]
    /\ ret' = [op |-> "UnlockByPull.Unlock"]
    /\ UNCHANGED <<pullState, dirs, plans, applied, wdLocks, cmds, srv, tf, tfdir, pullsBucket>>

\* UnlockByPull, line 201: return locks, nil
CallUnlockByPullReturn ==
    /\ ubp.pc = "unlocking"
    /\ ubp.i > Len(ubp.locks)
    /\ ret' = [op |-> "UnlockByPull", repo |-> ubp.repo, num |-> ubp.num,
               locks |-> ubp.locks, removed |-> ubp.removed]
    /\ ubp' = Idle
    /\ UNCHANGED <<locks, pullState, dirs, plans, applied, wdLocks, cmds, srv, tf, tfdir, pullsBucket>>

NoCall == [op |-> "none"]

LockInit ==
    /\ locks = <<>>
    /\ ubp = Idle
    /\ ret = NoCall
    /\ pullState = [q \in Pulls |-> "open"]
    /\ dirs = {}
    /\ plans = {}
    /\ applied = {}
    /\ wdLocks = {}
    /\ cmds = {}
    /\ srv = Serving
    /\ tf = NotRun
    /\ tfdir = NoTfDir
    /\ pullsBucket = <<>>

LockNext ==
    \/ \E newLock \in LockInputs : CallTryLock(newLock)
    \/ \E p \in LockProjects, w \in Workspaces : CallUnlock(p, w)
    \/ \E r \in Repos, n \in PullNums : CallUnlockByPullView(r, n)
    \/ CallUnlockByPullUnlock
    \/ CallUnlockByPullReturn

LockSpec == LockInit /\ [][LockNext]_vars

----------------------------------------------------------------------------
(* The handlers.  Each action is one handler run from its event to its      *)
(* response; what the tool, the hooks and the hosting platform answer is    *)
(* chosen by the environment.                                               *)

\* models.NewProject(ctx.BaseRepo.FullName, path)
ProjectOf(q, path) == [RepoFullName |-> q[1], Path |-> path]

\* the plan file {cloneDir(q, w)}/{path}/{w}.tfplan
Artifact(q, w, path) == [pull |-> q, ws |-> w, path |-> path]

\* what can happen to one project of a plan run / of an apply run
PlanOutcomes == {"ok", "configErr", "initErr", "planErr", "hookErr"}
ApplyOutcomes == {"ok", "configErr", "initErr", "applyErr", "hookErr"}

\* a ProjectResult of a run of the pull q: its kind, whether the run got past the lock step for the
\* project, and what TryLock answered
Result(q, w, path, kind, locked, acquired) ==
    [pull |-> q, ws |-> w, path |-> path, kind |-> kind,
     locked |-> locked, acquired |-> acquired]

\* ProjectPreExecutor.Execute: load the config and resolve the version, then
\* TryLock (not acquired and held by another pull: Failure; held by this pull:
\* go on), then init/get with the pre-hooks, whose failure releases the lock.
\* kind "none" is the empty ProjectResult: the executor goes on.
PreExecute(b, q, w, path, user, outcome) ==
    IF outcome = "configErr"
    THEN [bucket |-> b, kind |-> "Error", locked |-> FALSE, acquired |-> FALSE]
    ELSE LET try == TryLock(b, NewLock(ProjectOf(q, path), w, PullOf(q[1], q[2]), user))
         IN  IF ~try.acquired /\ try.lock.Pull.Num # q[2]
             THEN [bucket |-> try.bucket, kind |-> "Failure",
                   locked |-> FALSE, acquired |-> FALSE]
             ELSE IF outcome = "initErr"
             THEN [bucket |-> Unlock(try.bucket, ProjectOf(q, path), w).bucket,
                   kind |-> "Error", locked |-> TRUE, acquired |-> try.acquired]
             ELSE [bucket |-> try.bucket, kind |-> "none",
                   locked |-> TRUE, acquired |-> try.acquired]

\* PlanExecutor, one project: pre-execute; the plan tool, which writes the
\* artifact when it succeeds and whose failure releases the lock; the
\* post_plan hooks, whose failure releases the lock as every failure does.
PlanProject(st, q, w, path, user, outcome) ==
    LET pre == PreExecute(st.locks, q, w, path, user, outcome)
        p   == ProjectOf(q, path)
    IN  IF pre.kind # "none"
        THEN [st |-> [st EXCEPT !.locks = pre.bucket],
              result |-> Result(q, w, path, pre.kind, pre.locked, pre.acquired)]
        ELSE IF outcome = "planErr"
        THEN [st |-> [st EXCEPT !.locks = Unlock(pre.bucket, p, w).bucket],
              result |-> Result(q, w, path, "Error", TRUE, pre.acquired)]
        ELSE IF outcome = "hookErr"
        THEN [st |-> [st EXCEPT !.locks = Unlock(pre.bucket, p, w).bucket,
                                !.plans = @ \cup {Artifact(q, w, path)}],
              result |-> Result(q, w, path, "Error", TRUE, pre.acquired)]
        ELSE [st |-> [st EXCEPT !.locks = pre.bucket,
                                !.plans = @ \cup {Artifact(q, w, path)},
                                !.applied = @ \ {lockKey(p, w)}],
              result |-> Result(q, w, path, "PlanSuccess", TRUE, pre.acquired)]

\* webhooks.ApplyResult: the notification of one apply
ApplyResult(q, w, user, success) ==
    [Workspace |-> w, User |-> user, Pull |-> q, Success |-> success]

\* an apply that releases the lock of the project it applied
applyUnlocks(st, q, w, path, user, outcome) ==
    LET pre == PreExecute(st.locks, q, w, path, user, outcome)
        p   == ProjectOf(q, path)
    IN  IF pre.kind # "none"
        THEN [st |-> [st EXCEPT !.locks = pre.bucket],
              result |-> Result(q, w, path, pre.kind, pre.locked, pre.acquired)]
        ELSE IF outcome = "applyErr"
        THEN [st |-> [st EXCEPT !.locks = pre.bucket,
                                !.sent = Append(@, ApplyResult(q, w, user, FALSE))],
              result |-> Result(q, w, path, "Error", TRUE, pre.acquired)]
        ELSE IF outcome = "hookErr"
        THEN [st |-> [st EXCEPT !.locks = pre.bucket,
                                !.sent = Append(@, ApplyResult(q, w, user, TRUE))],
              result |-> Result(q, w, path, "Error", TRUE, pre.acquired)]
        ELSE [st |-> [st EXCEPT !.locks = Unlock(pre.bucket, p, w).bucket,
                                !.sent = Append(@, ApplyResult(q, w, user, TRUE))],
              result |-> Result(q, w, path, "ApplySuccess", TRUE, pre.acquired)]

\* an apply that sends the webhook once the post_apply hooks are through
applyNotifiesLast(st, q, w, path, user, outcome) ==
    LET pre == PreExecute(st.locks, q, w, path, user, outcome)
        p   == ProjectOf(q, path)
    IN  IF pre.kind # "none"
        THEN [st |-> [st EXCEPT !.locks = pre.bucket],
              result |-> Result(q, w, path, pre.kind, pre.locked, pre.acquired)]
        ELSE IF outcome = "applyErr"
        THEN [st |-> [st EXCEPT !.locks = pre.bucket,
                                !.sent = Append(@, ApplyResult(q, w, user, FALSE))],
              result |-> Result(q, w, path, "Error", TRUE, pre.acquired)]
        ELSE IF outcome = "hookErr"
        THEN [st |-> [st EXCEPT !.locks = pre.bucket],
              result |-> Result(q, w, path, "Error", TRUE, pre.acquired)]
        ELSE [st |-> [st EXCEPT !.locks = pre.bucket,
                                !.applied = @ \cup {lockKey(p, w)},
                                !.sent = Append(@, ApplyResult(q, w, user, TRUE))],
              result |-> Result(q, w, path, "ApplySuccess", TRUE, pre.acquired)]

\* ApplyExecutor.apply: pre-execute; the apply tool; the webhook, sent with
\* Success: err == nil whatever the tool answered; the post_apply hooks.  The
\* bucket is touched by the pre-executor only, and the artifact stays where
\* it is.
apply(st, q, w, path, user, outcome) ==
    LET pre == PreExecute(st.locks, q, w, path, user, outcome)
        p   == ProjectOf(q, path)
    IN  IF pre.kind # "none"
        THEN [st |-> [st EXCEPT !.locks = pre.bucket],
              result |-> Result(q, w, path, pre.kind, pre.locked, pre.acquired)]
        ELSE IF outcome = "applyErr"
        THEN [st |-> [st EXCEPT !.locks = pre.bucket,
                                !.sent = Append(@, ApplyResult(q, w, user, FALSE))],
              result |-> Result(q, w, path, "Error", TRUE, pre.acquired)]
        ELSE IF outcome = "hookErr"
        THEN [st |-> [st EXCEPT !.locks = pre.bucket,
                                !.sent = Append(@, ApplyResult(q, w, user, TRUE))],
              result |-> Result(q, w, path, "Error", TRUE, pre.acquired)]
        ELSE [st |-> [st EXCEPT !.locks = pre.bucket,
                                !.applied = @ \cup {lockKey(p, w)},
                                !.sent = Append(@, ApplyResult(q, w, user, TRUE))],
              result |-> Result(q, w, path, "ApplySuccess", TRUE, pre.acquired)]

\* the for loop of PlanExecutor.Execute over the projects
RECURSIVE PlanLoop(_, _, _, _, _, _)
PlanLoop(st, q, w, user, paths, outs) ==
    IF paths = <<>> THEN [st |-> st, results |-> <<>>]
    ELSE LET one  == PlanProject(st, q, w, Head(paths), user, Head(outs))
             rest == PlanLoop(one.st, q, w, user, Tail(paths), Tail(outs))
         IN  [st |-> rest.st, results |-> <<one.result>> \o rest.results]

\* a loop that stops after its first plan
ApplyLoopFirstOnly(st, q, w, user, paths, outs) ==
    IF paths = <<>> THEN [st |-> st, results |-> <<>>]
    ELSE LET one == apply(st, q, w, Head(paths), user, Head(outs))
         IN  [st |-> one.st, results |-> <<one.result>>]

\* the for loop of ApplyExecutor.Execute over the plans it found
RECURSIVE ApplyLoop(_, _, _, _, _, _)
ApplyLoop(st, q, w, user, paths, outs) ==
    IF paths = <<>> THEN [st |-> st, results |-> <<>>]
    ELSE LET one  == apply(st, q, w, Head(paths), user, Head(outs))
             rest == ApplyLoop(one.st, q, w, user, Tail(paths), Tail(outs))
         IN  [st |-> rest.st, results |-> <<one.result>> \o rest.results]

\* the project directories of a plan run, in the order they are processed:
\* the directories of the modified files, or the -d directory
PathLists == {<<>>, <<PathA>>, <<PathB>>, <<PathA, PathB>>}

\* the same when the pull requests touch the project PathA only
OnePathLists == {<<>>, <<PathA>>}

\* the users who comment the commands
Commenters == {"alice"}

\* ctx.Command.Dir == ""
NoDir == <<>>

\* the -d of an apply command
ApplyDirs == Paths \cup {NoDir}

\* what PullIsApproved answers when approval is required ("ok": approved, or
\* not required)
Approvals == {"ok", "unapproved", "error"}

\* FileWorkspace.cloneDir(r, p, workspace)
cloneDir(q, w) == <<q, w>>

\* os.RemoveAll(dir): the plan files under the directories ds go with them
RemoveAll(ps, ds) == {a \in ps : cloneDir(a.pull, a.ws) \notin ds}

\* where a Clone ends: "ok", or the step that returned the error
CloneOutcomes == {"ok", "removeErr", "mkdirErr", "cloneErr", "checkoutErr"}

\* a Clone that does not clean the directory first
CloneKeepsFiles(ds, ps, q, w, outcome) ==
    IF outcome = "removeErr" THEN [dirs |-> ds, plans |-> ps, err |-> TRUE]
    ELSE IF outcome = "mkdirErr" THEN [dirs |-> ds, plans |-> ps, err |-> TRUE]
    ELSE [dirs |-> ds \cup {cloneDir(q, w)}, plans |-> ps, err |-> outcome # "ok"]

\* FileWorkspace.Clone on the clone directories ds and the plan files ps in
\* them: os.RemoveAll(cloneDir) (when it fails the tree stays), os.MkdirAll
\* (when it fails there is no directory), git clone and git checkout (when
\* one fails the directory made before stays).  What git writes is the tree
\* of the remote and no plan file.
Clone(ds, ps, q, w, outcome) ==
    IF outcome = "removeErr" THEN [dirs |-> ds, plans |-> ps, err |-> TRUE]
    ELSE IF outcome = "mkdirErr"
    THEN [dirs |-> ds \ {cloneDir(q, w)},
          plans |-> RemoveAll(ps, {cloneDir(q, w)}), err |-> TRUE]
    ELSE [dirs |-> ds \cup {cloneDir(q, w)},
          plans |-> RemoveAll(ps, {cloneDir(q, w)}), err |-> outcome # "ok"]

\* FileWorkspace.GetWorkspace: os.Stat(cloneDir)
GetWorkspace(ds, q, w) == [err |-> cloneDir(q, w) \notin ds]

\* the CommandResponse of a command: Error, Failure or the ProjectResults
Response(op, top, results) == [op |-> op, top |-> top, results |-> results]

\* ProjectResult.Status
Status(r) ==
    IF r.kind = "Error" THEN "Failed"
    ELSE IF r.kind = "Failure" THEN "Failed"
    ELSE "Success"

\* a worstStatus that looks at the first status only
worstStatusOfFirst(ss) == IF ss = <<>> THEN "Success" ELSE Head(ss)

\* DefaultCommitStatusUpdater.worstStatus
RECURSIVE worstStatus(_)
worstStatus(ss) ==
    IF ss = <<>> THEN "Success"
    ELSE IF Head(ss) = "Failed" THEN "Failed"
    ELSE worstStatus(Tail(ss))

\* DefaultCommitStatusUpdater.UpdateProjectResult: the status it sets
UpdateProjectResult(res) ==
    IF res.top = "Error" \/ res.top = "Failure" THEN "Failed"
    ELSE worstStatus([i \in 1..Len(res.results) |-> Status(res.results[i])])

\* a plan command on an open pull request: PlanExecutor.Execute after the
\* command handler's check of the pull's state.  paths: the projects of the
\* run; cloneOk: git clone and checkout work; outs: what happens to each
\* project.
Plan(q, w, user, paths, cloneOk) ==
    /\ pullState[q] = "open"
    /\ IF paths = <<>>
       THEN /\ ret' = Response("plan", "Failure", <<>>)
            /\ UNCHANGED <<locks, dirs, plans, applied>>
       ELSE \* FileWorkspace.Clone: RemoveAll, MkdirAll, git clone, checkout
            LET cloned == Clone(dirs, plans, q, w, IF cloneOk THEN "ok" ELSE "checkoutErr")
                wiped  == cloned.plans
            IN  /\ dirs' = cloned.dirs
                /\ IF cloned.err
                   THEN /\ plans' = wiped
                        /\ ret' = Response("plan", "Error", <<>>)
                        /\ UNCHANGED <<locks, applied>>
                   ELSE \E outs \in [1..Len(paths) -> PlanOutcomes] :
                          \E run \in {PlanLoop([locks |-> locks, plans |-> wiped,
                                                applied |-> applied],
                                               q, w, user, paths, outs)} :
                              /\ locks' = run.st.locks
                              /\ plans' = run.st.plans
                              /\ applied' = run.st.applied \cap DOMAIN run.st.locks
                              /\ ret' = Response("plan", "none", run.results)
    /\ UNCHANGED <<ubp, pullState>>

\* filepath.Walk(repoDir, ...): the projects with a {w}.tfplan, in walk order
FoundPlans(q, w) == CursorOrder({p \in Paths : Artifact(q, w, p) \in plans})

\* what an apply run leaves: its CommandResponse, which top-level answer it
\* was, and the ApplyResult notifications it sent, in order
ApplyRun(top, why, results, sent) ==
    [op |-> "apply", top |-> top, results |-> results, why |-> why, sent |-> sent]

\* an Execute that looks for the workspace before it asks for the approval
ApplyGateWorkspaceFirst(q, w, approval, dir) ==
    LET found == IF dir = NoDir THEN FoundPlans(q, w)
                 ELSE IF Artifact(q, w, dir) \in plans THEN <<dir>>
                 ELSE <<>>
    IN  IF cloneDir(q, w) \notin dirs
        THEN [top |-> "Failure", why |-> "noWorkspace", found |-> <<>>]
        ELSE IF approval = "error"
        THEN [top |-> "Error", why |-> "approvalErr", found |-> <<>>]
        ELSE IF approval = "unapproved"
        THEN [top |-> "Failure", why |-> "notApproved", found |-> <<>>]
        ELSE IF dir # NoDir /\ found = <<>>
        THEN [top |-> "Error", why |-> "noPlanAtDir", found |-> <<>>]
        ELSE IF found = <<>>
        THEN [top |-> "Failure", why |-> "noPlans", found |-> <<>>]
        ELSE [top |-> "none", why |-> "", found |-> found]

\* ApplyExecutor.Execute up to its loop: the top-level Error or Failure it
\* returns, or the plans it goes on to apply
ApplyGate(q, w, approval, dir) ==
    LET found == IF dir = NoDir THEN FoundPlans(q, w)
                 ELSE IF Artifact(q, w, dir) \in plans THEN <<dir>>
                 ELSE <<>>
    IN  IF approval = "error"
        THEN [top |-> "Error", why |-> "approvalErr", found |-> <<>>]
        ELSE IF approval = "unapproved"
        THEN [top |-> "Failure", why |-> "notApproved", found |-> <<>>]
        ELSE IF GetWorkspace(dirs, q, w).err
        THEN [top |-> "Failure", why |-> "noWorkspace", found |-> <<>>]
        ELSE IF dir # NoDir /\ found = <<>>
        THEN [top |-> "Error", why |-> "noPlanAtDir", found |-> <<>>]
        ELSE IF found = <<>>
        THEN [top |-> "Failure", why |-> "noPlans", found |-> <<>>]
        ELSE [top |-> "none", why |-> "", found |-> found]

\* an apply command on an open pull request: ApplyExecutor.Execute
Apply(q, w, user, approval, dir) ==
    /\ pullState[q] = "open"
    /\ \E gate \in {ApplyGate(q, w, approval, dir)} :
           IF gate.top # "none"
           THEN /\ ret' = ApplyRun(gate.top, gate.why, <<>>, <<>>)
                /\ UNCHANGED <<locks, applied>>
           ELSE \E outs \in [1..Len(gate.found) -> ApplyOutcomes] :
                  \E run \in {ApplyLoop([locks |-> locks, plans |-> plans,
                                         applied |-> applied, sent |-> <<>>],
                                        q, w, user, gate.found, outs)} :
                      /\ locks' = run.st.locks
                      /\ applied' = run.st.applied \cap DOMAIN run.st.locks
                      /\ ret' = ApplyRun("none", "", run.results, run.st.sent)
    /\ UNCHANGED <<ubp, pullState, dirs, plans>>

\* the ids a DELETE /locks/{id} request can carry: the lock keys, and none
LockIds == {lockKey(p, w) : p \in Projects, w \in Workspaces} \cup {<<>>}

\* the project and the workspace a lock key stands for
KeyOwner(id) == CHOOSE pw \in Projects \X Workspaces : lockKey(pw[1], pw[2]) = id

\* a key that leaves the workspace out
wdKeyOfPull(q, w) == <<q[1], q[2]>>

\* the key of the working dir lock: TryLock(repoFullName, pullNum, workspace)
wdKey(q, w) == <<q[1], q[2], w>>

\* a working dir locker that refuses a taken key and frees it
wdTryLockDrops(held, key) ==
    IF key \in held THEN [held |-> held \ {key}, acquired |-> FALSE]
    ELSE [held |-> held \cup {key}, acquired |-> TRUE]

\* WorkingDirLocker.TryLock: taken when the key is free, refused when it is not
wdTryLock(held, key) ==
    IF key \in held THEN [held |-> held, acquired |-> FALSE]
    ELSE [held |-> held \cup {key}, acquired |-> TRUE]

\* an Unlock that leaves the key taken
wdUnlockKeeps(held, key) == held

\* WorkingDirLocker.Unlock
wdUnlock(held, key) == held \ {key}

\* mux.Vars(r)["id"]: no id in the request, or the id as it came
NoVar == [ok |-> FALSE, id |-> <<>>]

IdVar(s) == [ok |-> TRUE, id |-> s]

\* url.QueryEscape of a lock key, as the lock page writes it: %2F for "/"
RECURSIVE QueryEscape(_)
QueryEscape(s) ==
    IF s = <<>> THEN <<>>
    ELSE (IF Head(s) = "/" THEN <<"%", "2", "F">> ELSE <<Head(s)>>)
            \o QueryEscape(Tail(s))

\* ishex and unhex of net/url
ishex(c) == c \in {"0", "2", "A", "F"}

unhex(c) == CASE c = "0" -> 0 [] c = "2" -> 2 [] c = "A" -> 10 [] c = "F" -> 15

\* the character of a byte: those of the lock keys, "?" for the others
ByteChar(n) ==
    IF \E c \in {"/", "2", "a", "b", "d", "o", "r", "s"} : CharRank(c) = n
    THEN CHOOSE c \in {"/", "2", "a", "b", "d", "o", "r", "s"} : CharRank(c) = n
    ELSE "?"

\* url.unescape(s, mode): an error for a "%" that two hex digits do not
\* follow; otherwise %XX becomes its byte and, in a query, "+" a space
RECURSIVE unescape(_, _)
unescape(s, mode) ==
    IF s = <<>> THEN [err |-> FALSE, s |-> <<>>]
    ELSE IF Head(s) = "%"
    THEN IF Len(s) < 3 \/ ~ishex(s[2]) \/ ~ishex(s[3])
         THEN [err |-> TRUE, s |-> <<>>]
         ELSE LET rest == unescape(SubSeq(s, 4, Len(s)), mode)
              IN  IF rest.err THEN rest
                  ELSE [err |-> FALSE,
                        s |-> <<ByteChar(16 * unhex(s[2]) + unhex(s[3]))>> \o rest.s]
    ELSE LET rest == unescape(Tail(s), mode)
         IN  IF rest.err THEN rest
             ELSE [err |-> FALSE,
                   s |-> <<IF Head(s) = "+" /\ mode = "query" THEN " " ELSE Head(s)>>
                            \o rest.s]

QueryUnescape(s) == unescape(s, "query")

PathUnescape(s) == unescape(s, "path")

\* the ids a request can carry: none, the empty one, one that does not
\* decode, a key with a "+", and the escaped lock keys
RequestIds ==
    {NoVar, IdVar(<<>>), IdVar(<<"%", "A", "@">>), IdVar(<<"o", "+", "r">>)}
        \cup {IdVar(QueryEscape(k)) : k \in LockIds \ {<<>>}}

\* the lock service asked for the lock at a key (GetByID): none when the key
\* matches no lock
LockerGetLock(b, key) ==
    IF Has(b, key)
    THEN [found |-> TRUE, lock |-> GetLock(b, KeyOwner(key)[1], KeyOwner(key)[2])]
    ELSE [found |-> FALSE, lock |-> NoLock]

\* the lock service asked to delete the lock at a key (DeleteByID): none when
\* the key matches no lock
DeleteByID(b, key) ==
    IF Has(b, key) THEN Unlock(b, KeyOwner(key)[1], KeyOwner(key)[2])
    ELSE [bucket |-> b, found |-> FALSE, lock |-> NoLock]

\* the answer to a GET /lock request: the code, whether the lock service was
\* called, the lock on the page
Got(code, called, lock) ==
    [op |-> "getLock", code |-> code, called |-> called, lock |-> lock]

\* LocksController.GetLock.  svcOk: the lock service returns no error
getLock(b, req, svcOk) ==
    LET un == QueryUnescape(req.id)
    IN  IF ~req.ok THEN Got(400, FALSE, NoLock)
        ELSE IF un.err THEN Got(400, FALSE, NoLock)
        ELSE IF ~svcOk THEN Got(500, TRUE, NoLock)
        ELSE IF ~LockerGetLock(b, un.s).found THEN Got(404, TRUE, NoLock)
        ELSE Got(200, TRUE, LockerGetLock(b, un.s).lock)

GetLockRoute(req, svcOk) ==
    /\ ret' = getLock(locks, req, svcOk)
    /\ UNCHANGED <<locks, ubp, pullState, dirs, plans, applied, wdLocks, cmds, srv, tf, tfdir, pullsBucket>>

\* the answer to a DELETE /locks request: the code, whether the lock service
\* was called, the lock it deleted, what became of the comment ("none": not
\* tried) and of the project status
Deleted(code, called, lock, comment, status) ==
    [op |-> "deleteLock", code |-> code, called |-> called, lock |-> lock,
     comment |-> comment, status |-> status]

\* a DeleteLock that comments whatever the lock carries
deleteLockAlwaysComments(st, req, svcOk, delOk, statusOk, commentOk) ==
    LET un   == PathUnescape(req.id)
        same == [locks |-> st.locks, dirs |-> st.dirs, plans |-> st.plans, held |-> st.held]
    IN  IF ~req.ok \/ req.id = <<>>
        THEN [st |-> same, ret |-> Deleted(400, FALSE, NoLock, "none", "none")]
        ELSE IF un.err
        THEN [st |-> same, ret |-> Deleted(400, FALSE, NoLock, "none", "none")]
        ELSE IF ~svcOk
        THEN [st |-> same, ret |-> Deleted(500, TRUE, NoLock, "none", "none")]
        ELSE IF ~DeleteByID(st.locks, un.s).found
        THEN [st |-> same, ret |-> Deleted(404, TRUE, NoLock, "none", "none")]
        ELSE [st  |-> [same EXCEPT !.locks = DeleteByID(st.locks, un.s).bucket],
              ret |-> Deleted(200, TRUE, DeleteByID(st.locks, un.s).lock,
                              IF commentOk THEN "posted" ELSE "failed", "none")]

\* a DeleteLock that answers 500 when the comment fails
deleteLockCommentFatal(st, req, svcOk, delOk, statusOk, commentOk) ==
    LET un   == PathUnescape(req.id)
        same == [locks |-> st.locks, dirs |-> st.dirs, plans |-> st.plans, held |-> st.held]
        res  == DeleteByID(st.locks, un.s)
    IN  IF ~req.ok \/ req.id = <<>> \/ un.err
        THEN [st |-> same, ret |-> Deleted(400, FALSE, NoLock, "none", "none")]
        ELSE IF ~svcOk
        THEN [st |-> same, ret |-> Deleted(500, TRUE, NoLock, "none", "none")]
        ELSE IF ~res.found
        THEN [st |-> same, ret |-> Deleted(404, TRUE, NoLock, "none", "none")]
        ELSE IF res.lock.Pull.BaseRepo # NoRepo /\ ~commentOk
        THEN [st  |-> [same EXCEPT !.locks = res.bucket],
              ret |-> Deleted(500, TRUE, res.lock, "failed", "none")]
        ELSE [st  |-> [same EXCEPT !.locks = res.bucket],
              ret |-> Deleted(200, TRUE, res.lock,
                              IF res.lock.Pull.BaseRepo # NoRepo THEN "posted" ELSE "none",
                              "none")]

\* a DeleteLock that removes the working directory whether or not it got
\* the working dir lock
deleteLockNoWdLock(st, req, svcOk, delOk, statusOk, commentOk) ==
    LET un   == PathUnescape(req.id)
        same == [locks |-> st.locks, dirs |-> st.dirs, plans |-> st.plans, held |-> st.held]
        res  == DeleteByID(st.locks, un.s)
        lock == res.lock
        gone == IF delOk
                THEN {cloneDir(<<lock.Pull.BaseRepo, lock.Pull.Num>>, lock.Workspace)}
                ELSE {}
    IN  IF ~req.ok \/ req.id = <<>> \/ un.err
        THEN [st |-> same, ret |-> Deleted(400, FALSE, NoLock, "none", "none")]
        ELSE IF ~svcOk
        THEN [st |-> same, ret |-> Deleted(500, TRUE, NoLock, "none", "none")]
        ELSE IF ~res.found
        THEN [st |-> same, ret |-> Deleted(404, TRUE, NoLock, "none", "none")]
        ELSE IF lock.Pull.BaseRepo = NoRepo
        THEN [st  |-> [same EXCEPT !.locks = res.bucket],
              ret |-> Deleted(200, TRUE, lock, "none", "none")]
        ELSE [st  |-> [same EXCEPT !.locks = res.bucket,
                                   !.dirs = st.dirs \ gone,
                                   !.plans = RemoveAll(st.plans, gone)],
              ret |-> Deleted(200, TRUE, lock,
                              IF commentOk THEN "posted" ELSE "failed",
                              IF statusOk THEN "discarded" ELSE "failed")]

\* LocksController.DeleteLock on the store st (locks, dirs, plans, held: the
\* working dir locks taken).  svcOk: DeleteLockCommand.DeleteLock returns no
\* error; delOk, statusOk, commentOk: DeleteForWorkspace, UpdateProjectStatus
\* and CreateComment work; when they do not the error is logged and the
\* handler goes on.  The working dir lock it takes is released on return.
deleteLock(st, req, svcOk, delOk, statusOk, commentOk) ==
    LET un   == PathUnescape(req.id)
        same == [locks |-> st.locks, dirs |-> st.dirs, plans |-> st.plans, held |-> st.held]
    IN  IF ~req.ok \/ req.id = <<>>
        THEN [st |-> same, ret |-> Deleted(400, FALSE, NoLock, "none", "none")]
        ELSE IF un.err
        THEN [st |-> same, ret |-> Deleted(400, FALSE, NoLock, "none", "none")]
        ELSE IF ~svcOk
        THEN [st |-> same, ret |-> Deleted(500, TRUE, NoLock, "none", "none")]
        ELSE LET res  == DeleteByID(st.locks, un.s)
                 lock == res.lock
                 key  == wdKey(<<lock.Pull.BaseRepo, lock.Pull.Num>>, lock.Workspace)
                 try  == wdTryLock(st.held, key)
                 dir  == cloneDir(<<lock.Pull.BaseRepo, lock.Pull.Num>>, lock.Workspace)
                 gone == IF try.acquired /\ delOk THEN {dir} ELSE {}
             IN  IF ~res.found
                 THEN [st |-> same, ret |-> Deleted(404, TRUE, NoLock, "none", "none")]
                 ELSE IF lock.Pull.BaseRepo = NoRepo
                 THEN [st  |-> [same EXCEPT !.locks = res.bucket],
                       ret |-> Deleted(200, TRUE, lock, "none", "none")]
                 ELSE [st  |-> [locks |-> res.bucket,
                                dirs  |-> st.dirs \ gone,
                                plans |-> RemoveAll(st.plans, gone),
                                held  |-> IF try.acquired THEN wdUnlock(try.held, key)
                                          ELSE try.held],
                       ret |-> Deleted(200, TRUE, lock,
                                       IF commentOk THEN "posted" ELSE "failed",
                                       IF statusOk THEN "discarded" ELSE "failed")]

\* the store a handler works on
AdminStore == [locks |-> locks, dirs |-> dirs, plans |-> plans, held |-> wdLocks]

DeleteLock(req, svcOk, delOk, statusOk, commentOk) ==
    \E run \in {deleteLock(AdminStore, req, svcOk, delOk, statusOk, commentOk)} :
        /\ locks' = run.st.locks
        /\ applied' = applied \cap DOMAIN run.st.locks
        /\ dirs' = run.st.dirs
        /\ plans' = run.st.plans
        /\ wdLocks' = run.st.held
        /\ ret' = run.ret
        /\ UNCHANGED <<ubp, pullState, cmds, srv, tf, tfdir, pullsBucket>>

\* a Delete that takes the trees of every pull request of the repo
WorkspaceDeleteRepo(ds, q) == {d \in ds : d[1][1] = q[1]}

\* FileWorkspace.Delete(r, p): os.RemoveAll(repoPullDir(r, p)); the clone
\* directories of ds that go, those of every workspace of the pull request
WorkspaceDelete(ds, q) == {d \in ds : d[1] = q}

\* the pull request is closed or merged: UnlockByPull(R.FullName, N), then
\* Workspace.Delete(R, PR); each half is attempted whatever became of the
\* other.  unlockOk: the View of UnlockByPull works (when it does not,
\* nothing is unlocked); delOk: RemoveAll works.
PullClose(q, unlockOk, delOk) ==
    /\ pullState[q] = "open"
    /\ pullState' = [pullState EXCEPT ![q] = "closed"]
    /\ LET res  == IF unlockOk THEN UnlockByPull(locks, q[1], q[2])
                   ELSE [bucket |-> locks, locks |-> <<>>]
           gone == IF delOk THEN WorkspaceDelete(dirs, q) ELSE {}
       IN  /\ locks' = res.bucket
           /\ applied' = applied \cap DOMAIN res.bucket
           /\ dirs' = dirs \ gone
           /\ plans' = RemoveAll(plans, gone)
           /\ ret' = [op |-> "pullClose", pull |-> q, locks |-> res.locks,
                      unlocked |-> unlockOk, deleted |-> delOk]
    /\ UNCHANGED ubp

Init ==
    /\ locks = <<>>
    /\ ubp = Idle
    /\ ret = NoCall
    /\ pullState = [q \in Pulls |-> "open"]
    /\ dirs = {}
    /\ plans = {}
    /\ applied = {}
    /\ wdLocks = {}
    /\ cmds = {}
    /\ srv = Serving
    /\ tf = NotRun
    /\ tfdir = NoTfDir
    /\ pullsBucket = <<>>

Next ==
    \/ \E q \in Pulls, w \in Workspaces, user \in Commenters :
            \E paths \in OnePathLists, cloneOk \in BOOLEAN :
                /\ paths = <<>> => cloneOk
                /\ Plan(q, w, user, paths, cloneOk)
                /\ UNCHANGED <<wdLocks, cmds, srv, tf, tfdir, pullsBucket>>
    \/ \E q \in Pulls, w \in Workspaces, user \in Commenters :
            \E approval \in Approvals, dir \in ApplyDirs :
                /\ approval # "ok" => dir = NoDir
                /\ Apply(q, w, user, approval, dir)
                /\ UNCHANGED <<wdLocks, cmds, srv, tf, tfdir, pullsBucket>>
    \/ \E id \in LockIds, delOk \in BOOLEAN :
            \* the requests whose comment and status update work; the
            \* others are in AdminSpec
            /\ ~Has(locks, id) => delOk
            /\ DeleteLock(IdVar(QueryEscape(id)), TRUE, delOk, TRUE, TRUE)
    \/ \E q \in Pulls :
            \* the closes whose two halves work; the others are in RunSpec
            /\ PullClose(q, TRUE, TRUE)
            /\ UNCHANGED <<wdLocks, cmds, srv, tf, tfdir, pullsBucket>>

Spec == Init /\ [][Next]_vars

\* One plan run over one or both projects of RepoA, started from a lock
\* store that earlier runs have left: each project is free or locked by one
\* of the pull requests, whose clone directory exists.
HolderMaps == [Paths -> 0..MaxPull]

BucketOf(h) ==
    [k \in {lockKey(ProjectOf(<<RepoA, 1>>, p), WsDefault) : p \in {x \in Paths : h[x] # 0}} |->
        Marshal(NewLock(KeyOwner(k)[1], WsDefault,
                        PullOf(RepoA, h[KeyOwner(k)[1].Path]), "alice"))]

PlanRunInit ==
    /\ \E h \in HolderMaps :
          /\ locks = BucketOf(h)
          /\ dirs = {cloneDir(<<RepoA, h[p]>>, WsDefault) : p \in {x \in Paths : h[x] # 0}}
    /\ ubp = Idle
    /\ ret = NoCall
    /\ pullState = [q \in Pulls |-> "open"]
    /\ plans = {}
    /\ applied = {}
    /\ wdLocks = {}
    /\ cmds = {}
    /\ srv = Serving
    /\ tf = NotRun
    /\ tfdir = NoTfDir
    /\ pullsBucket = <<>>

PlanRunNext ==
    /\ ret = NoCall
    /\ \E n \in PullNums, w \in Workspaces, user \in Users :
          \E paths \in PathLists, cloneOk \in BOOLEAN :
              /\ Plan(<<RepoA, n>>, w, user, paths, cloneOk)
              /\ UNCHANGED <<wdLocks, cmds, srv, tf, tfdir, pullsBucket>>

PlanRunSpec == PlanRunInit /\ [][PlanRunNext]_vars

\* One plan run, apply run or pull close of a pull request of RepoA, started from a
\* state that earlier runs have left: each project is free or locked by one
\* of the pull requests, and has a plan file of one of them or none.
RunInit ==
    /\ \E h \in HolderMaps, planned \in HolderMaps :
          /\ locks = BucketOf(h)
          /\ plans = {Artifact(<<RepoA, planned[p]>>, WsDefault, p) :
                          p \in {x \in Paths : planned[x] # 0}}
          /\ dirs = {cloneDir(<<RepoA, h[p]>>, WsDefault) : p \in {x \in Paths : h[x] # 0}}
                     \cup {cloneDir(<<RepoA, planned[p]>>, WsDefault) :
                              p \in {x \in Paths : planned[x] # 0}}
    /\ ubp = Idle
    /\ ret = NoCall
    /\ pullState = [q \in Pulls |-> "open"]
    /\ applied = {}
    /\ wdLocks = {}
    /\ cmds = {}
    /\ srv = Serving
    /\ tf = NotRun
    /\ tfdir = NoTfDir
    /\ pullsBucket = <<>>

RunNext ==
    \/ /\ ret = NoCall
       /\ \E n \in PullNums, w \in Workspaces, user \in Commenters :
             \E paths \in PathLists, cloneOk \in BOOLEAN :
                /\ paths = <<>> => cloneOk
                /\ Plan(<<RepoA, n>>, w, user, paths, cloneOk)
                /\ UNCHANGED <<wdLocks, cmds, srv, tf, tfdir, pullsBucket>>
    \/ /\ ret = NoCall
       /\ \E n \in PullNums, w \in Workspaces, user \in Commenters :
             \E approval \in Approvals, dir \in ApplyDirs :
                /\ approval # "ok" => dir = NoDir
                /\ Apply(<<RepoA, n>>, w, user, approval, dir)
                /\ UNCHANGED <<wdLocks, cmds, srv, tf, tfdir, pullsBucket>>
    \/ /\ ret = NoCall
       /\ \E n \in PullNums, unlockOk \in BOOLEAN, delOk \in BOOLEAN :
             /\ PullClose(<<RepoA, n>>, unlockOk, delOk)
             /\ UNCHANGED <<wdLocks, cmds, srv, tf, tfdir, pullsBucket>>

RunSpec == RunInit /\ [][RunNext]_vars

----------------------------------------------------------------------------
(* The lock admin handlers, from a store that holds locks of pull requests  *)
(* of RepoA and, or not, a lock persisted without BaseRepo, with every      *)
(* answer of the lock service, the working dir, the status store and the    *)
(* hosting platform.                                                        *)

\* the lock of the merge request of RepoB, persisted without BaseRepo
OldFormatLock ==
    NewLock(ProjectOf(<<RepoB, 1>>, PathA), WsDefault, PullOf(RepoB, 1), "alice")

AdminInit ==
    /\ \E h \in HolderMaps, old \in BOOLEAN :
          /\ locks = IF old
                     THEN Put(BucketOf(h), lockKey(OldFormatLock.Project, WsDefault),
                              Marshal(OldFormatLock))
                     ELSE BucketOf(h)
          /\ plans = {Artifact(<<RepoA, h[p]>>, WsDefault, p) : p \in {x \in Paths : h[x] # 0}}
                        \cup (IF old THEN {Artifact(<<RepoB, 1>>, WsDefault, PathA)} ELSE {})
          /\ dirs = {cloneDir(<<RepoA, h[p]>>, WsDefault) : p \in {x \in Paths : h[x] # 0}}
                        \cup (IF old THEN {cloneDir(<<RepoB, 1>>, WsDefault)} ELSE {})
    /\ wdLocks \in {{}, {wdKey(<<RepoA, 1>>, WsDefault)}}
    /\ ubp = Idle
    /\ ret = NoCall
    /\ pullState = [q \in Pulls |-> "open"]
    /\ applied = {}
    /\ cmds = {}
    /\ srv = Serving
    /\ tf = NotRun
    /\ tfdir = NoTfDir
    /\ pullsBucket = <<>>

AdminNext ==
    \/ \E req \in RequestIds, svcOk \in BOOLEAN : GetLockRoute(req, svcOk)
    \/ \E req \in RequestIds :
          \E svcOk \in BOOLEAN, delOk \in BOOLEAN, statusOk \in BOOLEAN, commentOk \in BOOLEAN :
             DeleteLock(req, svcOk, delOk, statusOk, commentOk)

AdminSpec == AdminInit /\ [][AdminNext]_vars

----------------------------------------------------------------------------
(* The workspace manager by itself: Clone, GetWorkspace and Delete on the   *)
(* trees of the pull requests of RepoA, in two workspaces, with the plan    *)
(* files the tool writes into a cloned tree.                                *)

WorkspacePulls == {RepoA} \X PullNums

\* what a call of the workspace manager returned
Called(op, q, w, outcome) ==
    [op |-> op, pull |-> q, ws |-> w, outcome |-> outcome]

CallClone(q, w, outcome) ==
    LET cloned == Clone(dirs, plans, q, w, outcome)
    IN  /\ dirs' = cloned.dirs
        /\ plans' = cloned.plans
        /\ ret' = Called("Clone", q, w, outcome)
        /\ UNCHANGED <<locks, ubp, pullState, applied, wdLocks, cmds, srv, tf, tfdir, pullsBucket>>

CallGetWorkspace(q, w) ==
    /\ ret' = Called("GetWorkspace", q, w,
                     IF GetWorkspace(dirs, q, w).err THEN "err" ELSE "ok")
    /\ UNCHANGED <<locks, ubp, pullState, dirs, plans, applied, wdLocks, cmds, srv, tf, tfdir, pullsBucket>>

\* Delete(r, p): every workspace of the pull request goes; delOk: RemoveAll
\* works
CallDelete(q, delOk) ==
    LET gone == IF delOk THEN WorkspaceDelete(dirs, q) ELSE {}
    IN  /\ dirs' = dirs \ gone
        /\ plans' = RemoveAll(plans, gone)
        /\ ret' = Called("Delete", q, <<>>, IF delOk THEN "ok" ELSE "err")
        /\ UNCHANGED <<locks, ubp, pullState, applied, wdLocks, cmds, srv, tf, tfdir, pullsBucket>>

\* the plan tool writes {cloneDir}/{path}/{workspace}.tfplan into a tree
\* that is there
WritePlanFile(q, w, path) ==
    /\ cloneDir(q, w) \in dirs
    /\ plans' = plans \cup {Artifact(q, w, path)}
    /\ ret' = Called("plan -out", q, w, "ok")
    /\ UNCHANGED <<locks, ubp, pullState, dirs, applied, wdLocks, cmds, srv, tf, tfdir, pullsBucket>>

WorkspaceInit ==
    /\ locks = <<>>
    /\ ubp = Idle
    /\ ret = NoCall
    /\ pullState = [q \in Pulls |-> "open"]
    /\ dirs = {}
    /\ plans = {}
    /\ applied = {}
    /\ wdLocks = {}
    /\ cmds = {}
    /\ srv = Serving
    /\ tf = NotRun
    /\ tfdir = NoTfDir
    /\ pullsBucket = <<>>

WorkspaceNext ==
    \/ \E q \in WorkspacePulls, w \in CmdWorkspaces, outcome \in CloneOutcomes :
          CallClone(q, w, outcome)
    \/ \E q \in WorkspacePulls, w \in CmdWorkspaces : CallGetWorkspace(q, w)
    \/ \E q \in WorkspacePulls, delOk \in BOOLEAN : CallDelete(q, delOk)
    \/ \E q \in WorkspacePulls, w \in CmdWorkspaces : WritePlanFile(q, w, PathA)

WorkspaceSpec == WorkspaceInit /\ [][WorkspaceNext]_vars

----------------------------------------------------------------------------
(* The pull close next to running commands.  The close is UnlockByPull, a   *)
(* View and one Update per lock, and then Workspace.Delete; the TryLock of  *)
(* a plan and the Unlock of a failed run or of an admin delete are one      *)
(* transaction each and run in between.                                     *)

\* the locks the plans of the pull requests of RepoA ask for
CloseLockInputs ==
    {l \in LockInputs : l.Project.RepoFullName = RepoA /\ l.User = "alice"}

Closed(q, ls, unlockOk, delOk) ==
    [op |-> "pullClose", pull |-> q, locks |-> ls,
     unlocked |-> unlockOk, deleted |-> delOk]

\* the second half of the close, after UnlockByPull returned its locks: the
\* tree of the pull request goes, when Delete works
PullCloseDelete(delOk) ==
    /\ ubp.pc = "unlocking"
    /\ ubp.i > Len(ubp.locks)
    /\ LET q    == <<ubp.repo, ubp.num>>
           gone == IF delOk THEN WorkspaceDelete(dirs, q) ELSE {}
       IN  /\ dirs' = dirs \ gone
           /\ plans' = RemoveAll(plans, gone)
           /\ ret' = Closed(q, ubp.locks, TRUE, delOk)
    /\ ubp' = Idle
    /\ UNCHANGED <<locks, pullState, applied, wdLocks, cmds, srv, tf, tfdir, pullsBucket>>

\* the close whose UnlockByPull returned an error from its View: nothing is
\* unlocked, and the tree goes all the same, when Delete works
PullCloseUnlockFailed(q, delOk) ==
    /\ ubp.pc = "idle"
    /\ LET gone == IF delOk THEN WorkspaceDelete(dirs, q) ELSE {}
       IN  /\ dirs' = dirs \ gone
           /\ plans' = RemoveAll(plans, gone)
           /\ ret' = Closed(q, <<>>, FALSE, delOk)
    /\ UNCHANGED <<locks, ubp, pullState, applied, wdLocks, cmds, srv, tf, tfdir, pullsBucket>>

CloseInit ==
    /\ \E h \in HolderMaps : locks = BucketOf(h)
    /\ dirs = {cloneDir(<<RepoA, n>>, WsDefault) : n \in PullNums}
    /\ plans = {}
    /\ ubp = Idle
    /\ ret = NoCall
    /\ pullState = [q \in Pulls |-> "open"]
    /\ applied = {}
    /\ wdLocks = {}
    /\ cmds = {}
    /\ srv = Serving
    /\ tf = NotRun
    /\ tfdir = NoTfDir
    /\ pullsBucket = <<>>

CloseNext ==
    \/ \E newLock \in CloseLockInputs : CallTryLock(newLock)
    \/ \E p \in Paths : CallUnlock(ProjectOf(<<RepoA, 1>>, p), WsDefault)
    \/ \E n \in PullNums : CallUnlockByPullView(RepoA, n)
    \/ CallUnlockByPullUnlock
    \/ \E delOk \in BOOLEAN : PullCloseDelete(delOk)
    \/ \E n \in PullNums, delOk \in BOOLEAN : PullCloseUnlockFailed(<<RepoA, n>>, delOk)

CloseSpec == CloseInit /\ [][CloseNext]_vars

----------------------------------------------------------------------------
(* The command handler under concurrent comments.  Each webhook runs on its *)
(* own worker: ExecuteCommand takes the command up to the working dir lock, *)
(* Execute runs the executor and ends the command.                         *)

\* the pull requests commented on: one on GitHub, one on GitLab
CmdPulls == {<<RepoA, 1>>, <<RepoB, 1>>}

CommandNames == {"plan", "apply"}

\* the host type the event ingress hands to the command handler
HostOf(q) == IF q[1] = RepoA THEN "Github" ELSE "Gitlab"

\* const gitlabPullOpened
gitlabPullOpened == "opened"

\* what the API of the hosting platform reports as the state of a pull
\* request that is open / that is closed or merged
HostStates(host, state) ==
    IF host = "Github"
    THEN (IF state = "open" THEN {"open"} ELSE {"closed"})
    ELSE (IF state = "open" THEN {gitlabPullOpened} ELSE {"closed", "merged", "locked"})

\* ParseGithubPull: pullState := Closed; if pull.GetState() == "open" { Open }
ParseGithubPull(state) == IF state = "open" THEN "Open" ELSE "Closed"

\* a parser that takes only "closed" for Closed
ParseGitlabMergeRequestClosedOnly(state) == IF state = "closed" THEN "Closed" ELSE "Open"

\* ParseGitlabMergeRequest: pullState := Closed; if mr.State == "opened" { Open }
ParseGitlabMergeRequest(state) == IF state = gitlabPullOpened THEN "Open" ELSE "Closed"

\* models.PullRequest.State of what the host reported
ParsePull(host, state) ==
    IF host = "Github" THEN ParseGithubPull(state) ELSE ParseGitlabMergeRequest(state)

\* what became of a command before its executor: "logged" (the pull request
\* could not be fetched or parsed), "fork", "closed", "locked" (a comment
\* each), or "started"
Arrived(q, w, outcome) == [op |-> "command", pull |-> q, ws |-> w, outcome |-> outcome]

\* a command that got the working dir lock and is with its executor
Running(q, w, name, user) == [pull |-> q, ws |-> w, name |-> name, user |-> user]

\* CommandHandler.ExecuteCommand up to the executor, on a free worker: fetch
\* and parse the pull request (fetched: the state the host reports, or
\* "error"), check the policy (fork: the head repo has another owner, and
\* fork pull requests are not allowed), set the pending status, try the
\* working dir lock.
ExecuteCommand(q, w, name, user, fetched, fork) ==
    /\ Cardinality(cmds) < Cardinality(Workers)
    /\ LET try == wdTryLock(wdLocks, wdKey(q, w))
       IN  IF fetched = "error"
           THEN /\ ret' = Arrived(q, w, "logged")
                /\ UNCHANGED <<wdLocks, cmds, srv, tf, tfdir, pullsBucket>>
           ELSE IF ParsePull(HostOf(q), fetched) # "Open"
           THEN /\ ret' = Arrived(q, w, "closed")
                /\ UNCHANGED <<wdLocks, cmds, srv, tf, tfdir, pullsBucket>>
           ELSE IF fork
           THEN /\ ret' = Arrived(q, w, "fork")
                /\ UNCHANGED <<wdLocks, cmds, srv, tf, tfdir, pullsBucket>>
           ELSE IF ~try.acquired
           THEN /\ wdLocks' = try.held
                /\ ret' = Arrived(q, w, "locked")
                /\ UNCHANGED cmds
           ELSE /\ wdLocks' = try.held
                /\ cmds' = cmds \cup {Running(q, w, name, user)}
                /\ ret' = Arrived(q, w, "started")
    /\ UNCHANGED <<locks, ubp, pullState, dirs, plans, applied, srv, tf, tfdir, pullsBucket>>

\* a panic inside Execute, recovered by the handler and commented
Panicked(q, w) == [op |-> "panic", pull |-> q, ws |-> w]

\* the rest of the command c: the executor runs (or panics), the response is
\* rendered and posted, the working dir lock is released
RunExecutor(c) ==
    /\ c \in cmds
    /\ LET key == wdKey(c.pull, c.ws)
       IN  /\ \/ /\ c.name = "plan"
                 /\ \E paths \in OnePathLists, cloneOk \in BOOLEAN :
                       /\ paths = <<>> => cloneOk
                       /\ Plan(c.pull, c.ws, c.user, paths, cloneOk)
              \/ /\ c.name = "apply"
                 /\ \E approval \in Approvals, dir \in ApplyDirs :
                       /\ approval # "ok" => dir = NoDir
                       /\ Apply(c.pull, c.ws, c.user, approval, dir)
              \/ /\ ret' = Panicked(c.pull, c.ws)
                 /\ UNCHANGED <<locks, ubp, pullState, dirs, plans, applied>>
           /\ wdLocks' = wdUnlock(wdLocks, key)
           /\ cmds' = cmds \ {c}
           /\ UNCHANGED <<srv, tf, tfdir, pullsBucket>>

\* when the comments come, one of the two pull requests is open on its host
\* and the other is closed or merged
CmdInit ==
    /\ locks = <<>>
    /\ ubp = Idle
    /\ ret = NoCall
    /\ pullState \in {f \in [Pulls -> {"open", "closed"}] :
                        /\ \A q \in Pulls \ CmdPulls : f[q] = "open"
                        /\ Cardinality({q \in CmdPulls : f[q] = "open"}) = 1}
    /\ dirs = {}
    /\ plans = {}
    /\ applied = {}
    /\ wdLocks = {}
    /\ cmds = {}
    /\ srv = Serving
    /\ tf = NotRun
    /\ tfdir = NoTfDir
    /\ pullsBucket = <<>>

CmdNext ==
    \/ \E q \in CmdPulls, w \in CmdWorkspaces, name \in CommandNames :
          \E user \in Commenters, fork \in BOOLEAN,
             fetched \in HostStates(HostOf(q), pullState[q]) \cup {"error"} :
                ExecuteCommand(q, w, name, user, fetched, fork)
    \/ \E c \in cmds : RunExecutor(c)

CmdSpec == CmdInit /\ [][CmdNext]_vars

----------------------------------------------------------------------------
(* The shutdown.  Server.Start blocks on the signal channel, waitForDrain    *)
(* starts a goroutine that calls Drainer.ShutdownBlocking and sends on      *)
(* drainComplete, and selects on drainComplete and a ticker; commands keep   *)
(* arriving and ending on their own goroutines all along.                   *)

\* the commands that arrive while the server goes down
DrainCommands ==
    {Running(<<RepoA, 1>>, w, name, "alice") : w \in CmdWorkspaces, name \in CommandNames}

\* Drainer.StartOp: refused once the drainer is shutting down, counted otherwise
StartOp(d) ==
    IF d.ShuttingDown THEN [drainer |-> d, ok |-> FALSE]
    ELSE [drainer |-> [d EXCEPT !.InProgressOps = @ + 1], ok |-> TRUE]

\* Drainer.OpDone
OpDone(d) == [d EXCEPT !.InProgressOps = @ - 1]

\* Drainer.GetStatus
GetStatus(d) == d

\* a command comment reaches the command runner on a free worker, while the
\* HTTP server still serves: the runner asks the drainer and either starts
\* the command or answers that the server is shutting down
CommandArrives(c) ==
    /\ srv.pc # "returned"
    /\ c \notin cmds
    /\ Cardinality(cmds) < Cardinality(Workers)
    /\ LET r == StartOp(srv.drainer)
       IN  /\ srv' = [srv EXCEPT !.drainer = r.drainer]
           /\ cmds' = IF r.ok THEN cmds \cup {c} ELSE cmds
           /\ ret' = [op |-> "StartOp", cmd |-> c, started |-> r.ok]
    /\ UNCHANGED <<locks, ubp, pullState, dirs, plans, applied, wdLocks, tf, tfdir, pullsBucket>>

\* a running command ends: the deferred OpDone
CommandDone(c) ==
    /\ c \in cmds
    /\ cmds' = cmds \ {c}
    /\ srv' = [srv EXCEPT !.drainer = OpDone(srv.drainer)]
    /\ ret' = [op |-> "OpDone", cmd |-> c]
    /\ UNCHANGED <<locks, ubp, pullState, dirs, plans, applied, wdLocks, tf, tfdir, pullsBucket>>

\* SIGINT or SIGTERM: <-stop returns in Start
Signal ==
    /\ srv.pc = "serving"
    /\ srv' = [srv EXCEPT !.pc = "signalled"]
    /\ ret' = [op |-> "signal"]
    /\ UNCHANGED <<locks, ubp, pullState, dirs, plans, applied, wdLocks, cmds, tf, tfdir, pullsBucket>>

\* waitForDrain up to its select: the channel of capacity 1, the goroutine,
\* the ticker
WaitForDrainBegin ==
    /\ srv.pc = "signalled"
    /\ srv' = [srv EXCEPT !.pc = "waiting", !.goroutine = "spawned",
                          !.drainComplete = 0]
    /\ UNCHANGED <<locks, ubp, ret, pullState, dirs, plans, applied, wdLocks, cmds, tf, tfdir, pullsBucket>>

\* the goroutine enters Drainer.ShutdownBlocking: from here StartOp refuses
ShutdownBlockingBegin ==
    /\ srv.goroutine = "spawned"
    /\ srv' = [srv EXCEPT !.goroutine = "blocking", !.drainer.ShuttingDown = TRUE]
    /\ UNCHANGED <<locks, ubp, ret, pullState, dirs, plans, applied, wdLocks, cmds, tf, tfdir, pullsBucket>>

\* Drainer.ShutdownBlocking returns: nothing is in progress any more
ShutdownBlockingReturn ==
    /\ srv.goroutine = "blocking"
    /\ GetStatus(srv.drainer).InProgressOps = 0
    /\ srv' = [srv EXCEPT !.goroutine = "sending"]
    /\ UNCHANGED <<locks, ubp, ret, pullState, dirs, plans, applied, wdLocks, cmds, tf, tfdir, pullsBucket>>

\* a goroutine that ends without sending on drainComplete
DrainCompleteDropped ==
    /\ srv.goroutine = "sending"
    /\ srv' = [srv EXCEPT !.goroutine = "done"]
    /\ UNCHANGED <<locks, ubp, ret, pullState, dirs, plans, applied, wdLocks, cmds, tf, tfdir, pullsBucket>>

\* the goroutine's "drainComplete <- true": the channel has room for one
DrainCompleteSend ==
    /\ srv.goroutine = "sending"
    /\ srv.drainComplete < 1
    /\ srv' = [srv EXCEPT !.goroutine = "done", !.drainComplete = @ + 1]
    /\ UNCHANGED <<locks, ubp, ret, pullState, dirs, plans, applied, wdLocks, cmds, tf, tfdir, pullsBucket>>

\* the select takes the ticker: the in-progress count is logged
TickerLog ==
    /\ srv.pc = "waiting"
    /\ srv' = [srv EXCEPT !.logged = GetStatus(srv.drainer).InProgressOps]
    /\ UNCHANGED <<locks, ubp, ret, pullState, dirs, plans, applied, wdLocks, cmds, tf, tfdir, pullsBucket>>

\* a select that leaves waitForDrain on the first case that is ready,
\* the ticker included
WaitForDrainReturnOnTick ==
    /\ srv.pc = "waiting"
    /\ srv' = [srv EXCEPT !.pc = "drained", !.drainComplete = 0]
    /\ UNCHANGED <<locks, ubp, ret, pullState, dirs, plans, applied, wdLocks, cmds, tf, tfdir, pullsBucket>>

\* the select takes drainComplete: waitForDrain returns
WaitForDrainReturn ==
    /\ srv.pc = "waiting"
    /\ srv.drainComplete > 0
    /\ srv' = [srv EXCEPT !.pc = "drained", !.drainComplete = @ - 1]
    /\ UNCHANGED <<locks, ubp, ret, pullState, dirs, plans, applied, wdLocks, cmds, tf, tfdir, pullsBucket>>

\* server.Shutdown under its five second context, and Start returns: nil,
\* or the exit error when Shutdown failed
ServerShutdown(ok) ==
    /\ srv.pc = "drained"
    /\ srv' = [srv EXCEPT !.pc = "returned"]
    /\ ret' = [op |-> "Start", err |-> IF ok THEN "nil" ELSE "while shutting down"]
    /\ UNCHANGED <<locks, ubp, pullState, dirs, plans, applied, wdLocks, cmds, tf, tfdir, pullsBucket>>

DrainInit ==
    /\ locks = <<>>
    /\ ubp = Idle
    /\ ret = NoCall
    /\ pullState = [q \in Pulls |-> "open"]
    /\ dirs = {}
    /\ plans = {}
    /\ applied = {}
    /\ wdLocks = {}
    /\ cmds = {}
    /\ srv = Serving
    /\ tf = NotRun
    /\ tfdir = NoTfDir
    /\ pullsBucket = <<>>

\* what Start, waitForDrain and its goroutine do
ShutdownStep ==
    \/ WaitForDrainBegin
    \/ ShutdownBlockingBegin
    \/ ShutdownBlockingReturn
    \/ DrainCompleteSend
    \/ WaitForDrainReturn
    \/ \E ok \in BOOLEAN : ServerShutdown(ok)

DrainNext ==
    \/ \E c \in DrainCommands : CommandArrives(c)
    \/ \E c \in DrainCommands : CommandDone(c)
    \/ Signal
    \/ TickerLog
    \/ ShutdownStep

DrainSpec == DrainInit /\ [][DrainNext]_vars

\* the scheduler runs every goroutine that can take a step, the select takes
\* a channel that stays ready, and every command in progress comes to its end
DrainFairness ==
    /\ WF_vars(WaitForDrainBegin)
    /\ WF_vars(ShutdownBlockingBegin)
    /\ WF_vars(ShutdownBlockingReturn)
    /\ WF_vars(DrainCompleteSend)
    /\ WF_vars(WaitForDrainReturn)
    /\ WF_vars(\E ok \in BOOLEAN : ServerShutdown(ok))
    /\ \A c \in DrainCommands : WF_vars(CommandDone(c))

DrainLiveSpec == DrainInit /\ [][DrainNext]_vars /\ DrainFairness

----------------------------------------------------------------------------
(* crashSafeExec.  The child writes its merged stdout and stderr into an OS  *)
(* pipe of bounded capacity and blocks in write while the pipe is full; the  *)
(* call starts the child, waits for it, closes its own write end and only    *)
(* then reads the pipe line by line.                                        *)

\* lines an OS pipe holds before write blocks (64 KiB on Linux)
PipeCap == 3

\* ordinary lines a child prints at most, before the crash log if it has one
MaxOutput == 4

\* an ordinary line on stdout, and one on stderr
OutLine == <<"x">>
ErrLine == <<"e">>

\* the three lines the crash log of the tool ends with
CrashLines == << <<"[", "1", "]">>, <<>>, <<"!", "!">> >>

\* strings.Join(lines, "\n")
RECURSIVE Join(_)
Join(lines) ==
    IF lines = <<>> THEN <<>>
    ELSE IF Len(lines) = 1 THEN lines[1]
    ELSE lines[1] \o <<"\n">> \o Join(Tail(lines))

\* tfCrashDelim
tfCrashDelim == Join(CrashLines)

\* the last three lines read are the end of a crash log
IsCrash(outputLines) ==
    /\ Len(outputLines) >= 3
    /\ Join(SubSeq(outputLines, Len(outputLines) - 2, Len(outputLines))) = tfCrashDelim

\* what a child prints: ordinary lines and then, when it panics, the crash log
ExecScripts ==
    {body \o tail : body \in UNION {[1..n -> {OutLine, ErrLine}] : n \in 0..MaxOutput},
                    tail \in {<<>>, CrashLines}}

\* the call has returned
Returned(t) == [op |-> "crashSafeExec", out |-> Join(t.outputLines), err |-> t.err]

\* crashSafeExec up to cmd.Wait: os.Pipe, exec.Command, cmd.Start.  A child
\* that panics prints the crash log last and leaves a descendant holding the
\* write end of the pipe.
ExecStart(script, pipeOk, startOk) ==
    /\ tf.pc = "idle"
    /\ IF ~pipeOk
       THEN /\ tf' = [tf EXCEPT !.pc = "returned", !.err = "failed to initialize pipe for output"]
            /\ ret' = Returned(tf')
       ELSE IF ~startOk
       THEN /\ tf' = [tf EXCEPT !.pc = "closing", !.pw = TRUE, !.err = "start"]
            /\ UNCHANGED ret
       ELSE /\ tf' = [tf EXCEPT !.pc = "wait", !.pw = TRUE, !.child = "running",
                                !.script = script,
                                !.crash = (Len(script) >= 3 /\ IsCrash(script))]
            /\ UNCHANGED ret
    /\ UNCHANGED <<locks, ubp, pullState, dirs, plans, applied, wdLocks, cmds, srv, tfdir, pullsBucket>>

\* the child writes its next line: write(2) goes through while the pipe has
\* room and blocks while it is full
ChildWrite ==
    /\ tf.child = "running"
    /\ tf.script # <<>>
    /\ Len(tf.pipe) < PipeCap
    /\ tf' = [tf EXCEPT !.pipe = Append(@, Head(tf.script)), !.script = Tail(@)]
    /\ UNCHANGED <<locks, ubp, ret, pullState, dirs, plans, applied, wdLocks, cmds, srv, tfdir, pullsBucket>>

\* the child has written everything and exits; after a panic a descendant
\* still holds the write end
ChildExit ==
    /\ tf.child = "running"
    /\ tf.script = <<>>
    /\ tf' = [tf EXCEPT !.child = "exited", !.held = tf.crash]
    /\ UNCHANGED <<locks, ubp, ret, pullState, dirs, plans, applied, wdLocks, cmds, srv, tfdir, pullsBucket>>

\* cmd.Wait returns once the child has exited, with its exit status
WaitReturn(status) ==
    /\ tf.pc = "wait"
    /\ tf.child = "exited"
    /\ tf.crash => status # "nil"
    /\ tf' = [tf EXCEPT !.pc = "closing", !.err = status]
    /\ UNCHANGED <<locks, ubp, ret, pullState, dirs, plans, applied, wdLocks, cmds, srv, tfdir, pullsBucket>>

\* pw.Close() and linereader.New(pr)
PwClose ==
    /\ tf.pc = "closing"
    /\ tf' = [tf EXCEPT !.pc = "reading", !.pw = FALSE]
    /\ UNCHANGED <<locks, ubp, ret, pullState, dirs, plans, applied, wdLocks, cmds, srv, tfdir, pullsBucket>>

\* one turn of "for line := range lr.Ch": the line is appended, and the loop
\* is left when the last three lines are the crash delimiter
ReadLine ==
    /\ tf.pc = "reading"
    /\ tf.pipe # <<>>
    /\ LET lines == Append(tf.outputLines, Head(tf.pipe))
       IN  IF IsCrash(lines)
           THEN /\ tf' = [tf EXCEPT !.pc = "returned", !.pipe = Tail(@), !.outputLines = lines]
                /\ ret' = Returned(tf')
           ELSE /\ tf' = [tf EXCEPT !.pipe = Tail(@), !.outputLines = lines]
                /\ UNCHANGED ret
    /\ UNCHANGED <<locks, ubp, pullState, dirs, plans, applied, wdLocks, cmds, srv, tfdir, pullsBucket>>

\* the pipe is empty and no process holds its write end: the reader sees EOF,
\* lr.Ch is closed, the loop ends and the call returns
ReadEOF ==
    /\ tf.pc = "reading"
    /\ tf.pipe = <<>>
    /\ ~tf.pw /\ ~tf.held /\ tf.child # "running"
    /\ tf' = [tf EXCEPT !.pc = "returned"]
    /\ ret' = Returned(tf')
    /\ UNCHANGED <<locks, ubp, pullState, dirs, plans, applied, wdLocks, cmds, srv, tfdir, pullsBucket>>

ExecInit ==
    /\ locks = <<>>
    /\ ubp = Idle
    /\ ret = NoCall
    /\ pullState = [q \in Pulls |-> "open"]
    /\ dirs = {}
    /\ plans = {}
    /\ applied = {}
    /\ wdLocks = {}
    /\ cmds = {}
    /\ srv = Serving
    /\ tf = NotRun
    /\ tfdir = NoTfDir
    /\ pullsBucket = <<>>

ExecNext ==
    \/ \E script \in ExecScripts, pipeOk \in BOOLEAN, startOk \in BOOLEAN :
          ExecStart(script, pipeOk, startOk)
    \/ ChildWrite
    \/ ChildExit
    \/ \E status \in {"nil", "exit status 1"} : WaitReturn(status)
    \/ PwClose
    \/ ReadLine
    \/ ReadEOF

ExecSpec == ExecInit /\ [][ExecNext]_vars

\* the kernel runs the child while it can run, and the goroutine of the call
\* takes every step that does not block
ExecFairness ==
    /\ WF_vars(ChildWrite)
    /\ WF_vars(ChildExit)
    /\ WF_vars(\E status \in {"nil", "exit status 1"} : WaitReturn(status))
    /\ WF_vars(PwClose)
    /\ WF_vars(ReadLine)
    /\ WF_vars(ReadEOF)

ExecLiveSpec == ExecInit /\ [][ExecNext]_vars /\ ExecFairness

----------------------------------------------------------------------------
(* The comment parser.  A comment is the sequence of its words and of the    *)
(* white space between them, so that strings.Fields and the test for a      *)
(* second line are computed.                                                *)

\* the parser's users, as the tests configure them
GithubUser == "github-user"
GitlabUser == "gitlab-user"

\* words a comment is made of
CommentWords ==
    {"atlantis", "run", "@github-user", "@gitlab-user", "terraform", "abc",
     "plan", "help", "paln"}

WhiteSpace == {" ", "\n"}

\* the words of a line with one space between them
RECURSIVE SpaceJoin(_)
SpaceJoin(words) ==
    IF words = <<>> THEN <<>>
    ELSE IF Len(words) = 1 THEN words
    ELSE <<words[1], " ">> \o SpaceJoin(Tail(words))

\* lines of at most two words
CommentLines == {SpaceJoin(ws) : ws \in UNION {[1..n -> CommentWords] : n \in 0..2}}

\* the comments: one line, or a line followed by a second line with text
Comments ==
    CommentLines \cup {l \o <<"\n", "but">> : l \in CommentLines}

\* strings.Fields
Fields(comment) == SelectSeq(comment, LAMBDA c : c \notin WhiteSpace)

\* the comment has text on a line after the first
IsMultiLine(comment) ==
    \E i \in 1..(Len(comment) - 1) : comment[i] = "\n" /\ comment[i + 1] # "\n"

\* the names the bot answers to on a host
ExecutableNames(host) ==
    {"run", "atlantis", "@" \o (IF host = "Github" THEN GithubUser ELSE GitlabUser)}

\* Parse that looks at the first word before it looks for a second line
ParseWordsFirst(comment, host) ==
    LET args == Fields(comment)
    IN  IF args = <<>> THEN "Ignore"
        ELSE IF args[1] = "terraform" THEN "DidYouMean"
        ELSE IF IsMultiLine(comment) THEN "Ignore"
        ELSE IF args[1] \notin ExecutableNames(host) THEN "Ignore"
        ELSE IF Len(args) = 1 \/ args[2] \in {"help", "-h", "--help"} THEN "Help"
        ELSE IF args[2] \notin {"plan", "apply", "unlock"} THEN "ParseError"
        ELSE "Command"

\* CommentParser.Parse up to the command name: the kind of its result
Parse(comment, host) ==
    LET args == Fields(comment)
    IN  IF IsMultiLine(comment) THEN "Ignore"
        ELSE IF args = <<>> THEN "Ignore"
        ELSE IF args[1] = "terraform" THEN "DidYouMean"
        ELSE IF args[1] \notin ExecutableNames(host) THEN "Ignore"
        ELSE IF Len(args) = 1 \/ args[2] \in {"help", "-h", "--help"} THEN "Help"
        ELSE IF args[2] \notin {"plan", "apply", "unlock"} THEN "ParseError"
        ELSE "Command"

\* a comment webhook of a host
Commented(comment, host) == [op |-> "comment", comment |-> comment, host |-> host]

\* the comment is parsed
ParseComment ==
    /\ ret.op = "comment"
    /\ ret' = [op |-> "Parse", comment |-> ret.comment, host |-> ret.host,
               result |-> Parse(ret.comment, ret.host)]
    /\ UNCHANGED <<locks, ubp, pullState, dirs, plans, applied, wdLocks, cmds, srv, tf, tfdir, pullsBucket>>

ParseInit ==
    /\ locks = <<>>
    /\ ubp = Idle
    /\ ret \in {Commented(c, host) : c \in Comments, host \in {"Github", "Gitlab"}}
    /\ pullState = [q \in Pulls |-> "open"]
    /\ dirs = {}
    /\ plans = {}
    /\ applied = {}
    /\ wdLocks = {}
    /\ cmds = {}
    /\ srv = Serving
    /\ tf = NotRun
    /\ tfdir = NoTfDir
    /\ pullsBucket = <<>>

ParseNext == ParseComment

ParseSpec == ParseInit /\ [][ParseNext]_vars

----------------------------------------------------------------------------
(* The comment parser after the command name: the flag set, the validation   *)
(* of -d and -w and the quoting of the extra arguments.  A token is the      *)
(* sequence of its characters, so that filepath.Clean, strings.Contains and  *)
(* the quoting are computed.                                                *)

\* longest -d value, and longest -w value
MaxDirLen == 4
MaxWsLen == 3

TokDash == <<"-", "-">>
TokDir == <<"-", "d">>
TokDirLong == <<"-", "-", "d", "i", "r">>
TokWorkspace == <<"-", "w">>
TokWorkspaceLong == <<"-", "-", "w", "o", "r", "k", "s", "p", "a", "c", "e">>
TokVerbose == <<"-", "-", "v", "e", "r", "b", "o", "s", "e">>
TokHelp == <<"-", "h">>
TokHelpLong == <<"-", "-", "h", "e", "l", "p">>

\* the flag set before Parse: the defaults of the flags
NewFlagSet ==
    [dir |-> <<>>, workspace |-> WsDefault, verbose |-> FALSE, args |-> <<>>,
     atDash |-> -1, err |-> "nil"]

\* pflag's FlagSet.Parse: a value flag takes the next token whatever it is,
\* "--" ends the flags, a token that does not start with "-" is a positional
\* argument and the flags go on after it
RECURSIVE FlagSetParse(_, _)
FlagSetParse(tokens, fs) ==
    IF tokens = <<>> THEN fs
    ELSE LET t == Head(tokens)
             rest == Tail(tokens)
         IN  IF t = TokDash
             THEN [fs EXCEPT !.atDash = Len(fs.args), !.args = fs.args \o rest]
             ELSE IF t \in {TokDir, TokDirLong}
             THEN IF rest = <<>> THEN [fs EXCEPT !.err = "flag needs an argument"]
                  ELSE FlagSetParse(Tail(rest), [fs EXCEPT !.dir = Head(rest)])
             ELSE IF t \in {TokWorkspace, TokWorkspaceLong}
             THEN IF rest = <<>> THEN [fs EXCEPT !.err = "flag needs an argument"]
                  ELSE FlagSetParse(Tail(rest), [fs EXCEPT !.workspace = Head(rest)])
             ELSE IF t = TokVerbose
             THEN FlagSetParse(rest, [fs EXCEPT !.verbose = TRUE])
             ELSE IF t \in {TokHelp, TokHelpLong}
             THEN [fs EXCEPT !.err = "help"]
             ELSE IF Len(t) > 1 /\ t[1] = "-"
             THEN [fs EXCEPT !.err = "unknown flag"]
             ELSE FlagSetParse(rest, [fs EXCEPT !.args = Append(@, t)])

\* strings.Split(path, "/")
RECURSIVE SplitPath(_)
SplitPath(path) ==
    IF \A i \in 1..Len(path) : path[i] # "/" THEN <<path>>
    ELSE LET i == CHOOSE k \in 1..Len(path) :
                     path[k] = "/" /\ \A j \in 1..(k - 1) : path[j] # "/"
         IN  <<SubSeq(path, 1, i - 1)>> \o SplitPath(SubSeq(path, i + 1, Len(path)))

\* strings.Join(elems, "/")
RECURSIVE JoinPath(_)
JoinPath(elems) ==
    IF elems = <<>> THEN <<>>
    ELSE IF Len(elems) = 1 THEN elems[1]
    ELSE elems[1] \o <<"/">> \o JoinPath(Tail(elems))

\* the elements filepath.Clean keeps: "" and "." go, ".." takes the element
\* before it, stays at the front of a relative path and goes at the root
RECURSIVE CleanElems(_, _, _)
CleanElems(elems, kept, rooted) ==
    IF elems = <<>> THEN kept
    ELSE LET e == Head(elems)
         IN  IF e = <<>> \/ e = <<".">> THEN CleanElems(Tail(elems), kept, rooted)
             ELSE IF e = <<".", ".">>
             THEN IF kept # <<>> /\ kept[Len(kept)] # <<".", ".">>
                  THEN CleanElems(Tail(elems), SubSeq(kept, 1, Len(kept) - 1), rooted)
                  ELSE IF rooted THEN CleanElems(Tail(elems), kept, rooted)
                  ELSE CleanElems(Tail(elems), Append(kept, e), rooted)
             ELSE CleanElems(Tail(elems), Append(kept, e), rooted)

\* filepath.Clean
Clean(path) ==
    LET rooted == path # <<>> /\ path[1] = "/"
        kept == CleanElems(SplitPath(path), <<>>, rooted)
    IN  IF rooted THEN <<"/">> \o JoinPath(kept)
        ELSE IF kept = <<>> THEN <<".">>
        ELSE JoinPath(kept)

\* strings.Contains
Contains(s, substr) ==
    \E i \in 0..(Len(s) - Len(substr)) : SubSeq(s, i + 1, i + Len(substr)) = substr

\* validateDir without the test for "..": every cleaned path is accepted
validateDirAny(dir) ==
    [err |-> FALSE, dir |-> Clean(<<".", "/">> \o Clean(dir))]

\* validateDir: Clean, Join with "." so that the path is relative, Clean
\* again, and no path that begins with ".."
validateDir(dir) ==
    LET validatedDir == Clean(<<".", "/">> \o Clean(dir))
    IN  IF HasPrefix(validatedDir, <<".", ".">>) THEN [err |-> TRUE, dir |-> <<>>]
        ELSE [err |-> FALSE, dir |-> validatedDir]

\* the workspace becomes a file name: not "/" and nothing with ".." in it
ValidWorkspace(workspace) ==
    workspace # <<"/">> /\ ~Contains(workspace, <<".", ".">>)

\* fmt.Sprintf("%q", arg)
RECURSIVE QuoteChars(_)
QuoteChars(arg) ==
    IF arg = <<>> THEN <<>>
    ELSE (IF Head(arg) \in {"\"", "\\"} THEN <<"\\", Head(arg)>> ELSE <<Head(arg)>>)
         \o QuoteChars(Tail(arg))

Quote(arg) == <<"\"">> \o QuoteChars(arg) \o <<"\"">>

\* the results of Parse for a plan or apply comment
NoCommand == [Name |-> "none", Dir |-> <<>>, Workspace |-> <<>>, Verbose |-> FALSE,
              Flags |-> <<>>]

ParseError(why) == [kind |-> "ParseError", why |-> why, Command |-> NoCommand]

ParsedCommand(name, dir, workspace, verbose, flags) ==
    [kind |-> "Command", why |-> "",
     Command |-> [Name |-> name, Dir |-> dir, Workspace |-> workspace,
                  Verbose |-> verbose, Flags |-> flags]]

\* Parse from the flags on: "atlantis plan" or "atlantis apply" was read and
\* tokens are the fields after it
ParseFlags(name, tokens) ==
    LET fs == FlagSetParse(tokens, NewFlagSet)
        unusedArgs == IF fs.atDash = -1 THEN fs.args ELSE SubSeq(fs.args, 1, fs.atDash)
        extraArgs == IF fs.atDash = -1 THEN <<>>
                     ELSE SubSeq(fs.args, fs.atDash + 1, Len(fs.args))
        valid == validateDir(fs.dir)
    IN  IF fs.err = "help" THEN [kind |-> "Help", why |-> "", Command |-> NoCommand]
        ELSE IF fs.err # "nil" THEN ParseError(fs.err)
        ELSE IF unusedArgs # <<>> THEN ParseError("unknown argument(s)")
        ELSE IF fs.dir # <<>> /\ valid.err THEN ParseError("using a relative path")
        ELSE IF ~ValidWorkspace(fs.workspace) THEN ParseError("invalid workspace")
        ELSE ParsedCommand(name, IF fs.dir = <<>> THEN <<>> ELSE valid.dir,
                           fs.workspace, fs.verbose,
                           [i \in 1..Len(extraArgs) |-> Quote(extraArgs[i])])

\* the project a plan step runs for: the clone, the user, the versions of
\* the tool below and from 0.12
CloneRoot == <<"/", "c">>
StepUser == <<"u">>
TfVersions == {<<0, 11>>, <<0, 12>>}

\* GetPlanFilename: {workspace}.tfplan in the project directory
GetPlanFilename(workspace) == workspace \o <<".tfplan">>

\* filepath.Join of a directory and a name
JoinDir(dir, name) == Clean(dir \o <<"/">> \o name)

\* BaseRepo.Owner and BaseRepo.Name: the full name before and after its "/"
RepoOwner(repo) ==
    SubSeq(repo, 1, (CHOOSE i \in 1..Len(repo) : repo[i] = "/") - 1)

RepoName(repo) ==
    SubSeq(repo, (CHOOSE i \in 1..Len(repo) : repo[i] = "/") + 1, Len(repo))

\* tfVars: who and where the command runs for, not passed from 0.12 on
tfVars(user, repo, num, tfVersion) ==
    IF tfVersion[1] > 0 \/ tfVersion[2] >= 12 THEN <<>>
    ELSE << <<"-var">>, <<"atlantis_user=">> \o Quote(user),
            <<"-var">>, <<"atlantis_repo=">> \o Quote(repo),
            <<"-var">>, <<"atlantis_repo_name=">> \o Quote(RepoName(repo)),
            <<"-var">>, <<"atlantis_repo_owner=">> \o Quote(RepoOwner(repo)),
            <<"-var">>, <<"atlantis_pull_num=", ToString(num)>> >>

\* flatten
RECURSIVE flatten(_)
flatten(slices) ==
    IF slices = <<>> THEN <<>> ELSE Head(slices) \o flatten(Tail(slices))

\* the arguments that every plan command starts with
PlanFixedArgs(planFile) ==
    << <<"plan">>, <<"-input=false">>, <<"-refresh">>, <<"-no-color">>, <<"-out">>,
       Quote(planFile) >>

\* the -var-file arguments: there when env/{workspace}.tfvars is in the
\* project directory
EnvFileArgs(path, workspace, envFileThere) ==
    IF envFileThere
    THEN << <<"-var-file">>, JoinDir(JoinDir(path, <<"e", "n", "v">>), workspace \o <<".tfvars">>) >>
    ELSE <<>>

\* buildPlanCmd with the -var-file arguments put first
buildPlanCmdEnvFirst(path, workspace, user, repo, num, tfVersion, extraArgs, commentArgs, envFileThere) ==
    flatten(<< EnvFileArgs(path, workspace, envFileThere),
               PlanFixedArgs(JoinDir(path, GetPlanFilename(workspace))),
               tfVars(user, repo, num, tfVersion),
               extraArgs,
               commentArgs >>)

\* buildPlanCmd that leaves the arguments of the comment out
buildPlanCmdNoComment(path, workspace, user, repo, num, tfVersion, extraArgs, commentArgs, envFileThere) ==
    flatten(<< PlanFixedArgs(JoinDir(path, GetPlanFilename(workspace))),
               tfVars(user, repo, num, tfVersion),
               extraArgs,
               EnvFileArgs(path, workspace, envFileThere) >>)

\* buildPlanCmd: the fixed arguments, the variables, the configured extra
\* arguments, the arguments of the comment, the -var-file arguments
buildPlanCmd(path, workspace, user, repo, num, tfVersion, extraArgs, commentArgs, envFileThere) ==
    flatten(<< PlanFixedArgs(JoinDir(path, GetPlanFilename(workspace))),
               tfVars(user, repo, num, tfVersion),
               extraArgs,
               commentArgs,
               EnvFileArgs(path, workspace, envFileThere) >>)

\* the extra arguments a repo configures for its plan step
ConfiguredArgs == {<<>>, << <<"-lock=false">> >>}

\* the values a comment gives to -d and to -w
DirValues == UNION {[1..n -> {"/", ".", "a"}] : n \in 1..MaxDirLen}
WorkspaceValues == UNION {[1..n -> {"/", ".", "w"}] : n \in 1..MaxWsLen}

\* the tokens a comment puts after "--"
ExtraTokens == {TokDir, TokWorkspace, TokVerbose, <<"x">>, <<"\"", ";">>}
ExtraLists == UNION {[1..n -> ExtraTokens] : n \in 0..2}

\* the flags of the comments: -d and -w with every value, in both orders;
\* some flags, "--" and extra arguments; and the comments pflag refuses
FlagComments ==
    {<<>>}
    \cup {<<TokDir, d>> : d \in DirValues}
    \cup {<<TokWorkspace, w>> : w \in WorkspaceValues}
    \cup {<<TokDir, d, TokWorkspaceLong, w>> :
            d \in DirValues, w \in {<<"w">>, <<"/">>, <<".", ".">>}}
    \cup {<<TokWorkspace, <<"w">>, TokDirLong, d>> : d \in DirValues}
    \cup {pre \o <<TokDash>> \o extra :
            pre \in {<<>>, <<TokDir, <<"a">>>>, <<TokVerbose>>,
                     <<TokVerbose, TokWorkspace, <<"w">>>>},
            extra \in ExtraLists}
    \cup {<<TokDir>>, <<TokHelp>>, <<TokHelpLong>>, <<<<"-", "e">>>>, <<<<"x">>>>,
          <<TokVerbose, <<"x">>, TokDash, <<"x">>>>,
          <<TokWorkspace, TokDash, TokDir, <<"a">>>>, <<TokDir, TokDash, TokDash, TokVerbose>>}

\* a plan or apply comment whose flags are to be parsed
Flagged(name, tokens) == [op |-> "flags", name |-> name, tokens |-> tokens]

ParseFlagsOfComment ==
    /\ ret.op = "flags"
    /\ ret' = [op |-> "ParseFlags", name |-> ret.name, tokens |-> ret.tokens,
               result |-> ParseFlags(ret.name, ret.tokens)]
    /\ UNCHANGED <<locks, ubp, pullState, dirs, plans, applied, wdLocks, cmds, srv, tf, tfdir, pullsBucket>>

\* the plan step of a parsed plan command builds the command of the tool:
\* the project directory is the Dir of the command under the clone
BuildPlanCmdOfCommand(tfVersion, extraArgs, envFileThere) ==
    /\ ret.op = "ParseFlags"
    /\ ret.result.kind = "Command"
    /\ ret.name = "plan"
    /\ LET c == ret.result.Command
           path == JoinDir(CloneRoot, IF c.Dir = <<>> THEN <<".">> ELSE c.Dir)
       IN  ret' = [op |-> "planCmd", tokens |-> ret.tokens, Command |-> c, path |-> path,
                   tfVersion |-> tfVersion, extraArgs |-> extraArgs,
                   envFileThere |-> envFileThere,
                   args |-> buildPlanCmd(path, c.Workspace, StepUser, RepoA, 1, tfVersion,
                                         extraArgs, c.Flags, envFileThere)]
    /\ UNCHANGED <<locks, ubp, pullState, dirs, plans, applied, wdLocks, cmds, srv, tf, tfdir, pullsBucket>>

\* the words of a comment with one space between them, as text
RECURSIVE JoinWords(_)
JoinWords(words) ==
    IF words = <<>> THEN <<>>
    ELSE IF Len(words) = 1 THEN words[1]
    ELSE words[1] \o <<" ">> \o JoinWords(Tail(words))

\* strings.Fields on text: the maximal runs of characters that are not white
\* space
RECURSIVE FieldsOfText(_, _)
FieldsOfText(text, word) ==
    IF text = <<>> THEN IF word = <<>> THEN <<>> ELSE <<word>>
    ELSE IF Head(text) \in {" ", "\n", "\t"}
    THEN (IF word = <<>> THEN <<>> ELSE <<word>>) \o FieldsOfText(Tail(text), <<>>)
    ELSE FieldsOfText(Tail(text), Append(word, Head(text)))

TokAtlantis == <<"a", "t", "l", "a", "n", "t", "i", "s">>
NameToken(name) == IF name = "plan" THEN <<"p", "l", "a", "n">> ELSE <<"a", "p", "p", "l", "y">>

\* a Command written back as a comment without its --verbose
RenderNoVerbose(c) ==
    JoinWords(<<TokAtlantis, NameToken(c.Name)>>
              \o (IF c.Dir = <<>> THEN <<>> ELSE <<TokDir, c.Dir>>)
              \o <<TokWorkspace, c.Workspace>>
              \o (IF c.Flags = <<>> THEN <<>> ELSE <<TokDash>> \o c.Flags))

\* a Command written back as a comment: its name, -d when it has a Dir, -w,
\* --verbose when set, and its extra flags after "--"
Render(c) ==
    JoinWords(<<TokAtlantis, NameToken(c.Name)>>
              \o (IF c.Dir = <<>> THEN <<>> ELSE <<TokDir, c.Dir>>)
              \o <<TokWorkspace, c.Workspace>>
              \o (IF c.Verbose THEN <<TokVerbose>> ELSE <<>>)
              \o (IF c.Flags = <<>> THEN <<>> ELSE <<TokDash>> \o c.Flags))

\* the Command of a parsed comment is rendered and the text is parsed again
RenderAndParse ==
    /\ ret.op = "ParseFlags"
    /\ ret.result.kind = "Command"
    /\ LET text == Render(ret.result.Command)
           args == FieldsOfText(text, <<>>)
       IN  ret' = [op |-> "roundTrip", Command |-> ret.result.Command, text |-> text,
                   result |-> ParseFlags(ret.name, SubSeq(args, 3, Len(args)))]
    /\ UNCHANGED <<locks, ubp, pullState, dirs, plans, applied, wdLocks, cmds, srv, tf, tfdir, pullsBucket>>

FlagInit ==
    /\ locks = <<>>
    /\ ubp = Idle
    /\ ret \in {Flagged(name, tokens) : name \in CommandNames, tokens \in FlagComments}
    /\ pullState = [q \in Pulls |-> "open"]
    /\ dirs = {}
    /\ plans = {}
    /\ applied = {}
    /\ wdLocks = {}
    /\ cmds = {}
    /\ srv = Serving
    /\ tf = NotRun
    /\ tfdir = NoTfDir
    /\ pullsBucket = <<>>

FlagNext ==
    \/ ParseFlagsOfComment
    \/ RenderAndParse
    \/ \E tfVersion \in TfVersions, extraArgs \in ConfiguredArgs, envFileThere \in BOOLEAN :
          BuildPlanCmdOfCommand(tfVersion, extraArgs, envFileThere)

FlagSpec == FlagInit /\ [][FlagNext]_vars

----------------------------------------------------------------------------
(* The plan step.  PlanStepRunner.Run on one project directory: the          *)
(* commands it hands to the terraform executor, terraform's workspaces in    *)
(* that directory and the .tfplan-error file of each workspace.              *)

\* const defaultWorkspace
defaultWorkspace == WsDefault

\* the versions of the tool: before workspaces, 0.9.x, and later ones
StepVersions == {<<0, 8>>, <<0, 9>>, <<0, 11>>, <<0, 12>>}

\* MustConstraint("<0.9").Check(tfVersion)
noWorkspaceSupport(tfVersion) == tfVersion[1] = 0 /\ tfVersion[2] < 9

\* MustConstraint(">=0.9,<0.10").Check(tfVersion)
runningZeroPointNine(tfVersion) == tfVersion[1] = 0 /\ tfVersion[2] = 9

\* strings.TrimSpace
RECURSIVE TrimLeft(_)
TrimLeft(s) ==
    IF s # <<>> /\ Head(s) \in {" ", "\n"} THEN TrimLeft(Tail(s)) ELSE s

RECURSIVE TrimRight(_)
TrimRight(s) ==
    IF s # <<>> /\ s[Len(s)] \in {" ", "\n"}
    THEN TrimRight(SubSeq(s, 1, Len(s) - 1)) ELSE s

TrimSpace(s) == TrimRight(TrimLeft(s))

\* terraform workspace show: prints the current workspace and a newline
TfShow(d, ok) ==
    [err |-> ~ok, output |-> IF ok THEN d.current \o <<"\n">> ELSE <<>>]

\* terraform workspace select: fails when there is no such workspace
TfSelect(d, workspace, ok) ==
    IF ok /\ workspace \in d.existing
    THEN [err |-> FALSE, dir |-> [d EXCEPT !.current = workspace]]
    ELSE [err |-> TRUE, dir |-> d]

\* terraform workspace new: creates the workspace and switches to it
TfNew(d, workspace, ok) ==
    IF ok /\ workspace \notin d.existing
    THEN [err |-> FALSE,
          dir |-> [d EXCEPT !.current = workspace, !.existing = @ \cup {workspace}]]
    ELSE [err |-> TRUE, dir |-> d]

\* one TerraformExecutor.RunCommandWithVersion call: its arguments, and
\* whether it returned an error
Issued(args, err) == [args |-> args, err |-> err]

\* the three workspace commands
ShowCmd(workspaceCmd) == <<workspaceCmd, <<"show">> >>
SelectCmd(workspaceCmd, workspace) ==
    <<workspaceCmd, <<"select">>, <<"-no-color">>, workspace>>
NewCmd(workspaceCmd, workspace) ==
    <<workspaceCmd, <<"new">>, <<"-no-color">>, workspace>>

\* lines 96-108: select, and new when select fails
selectOrNew(d, workspace, workspaceCmd, issued, selectOk, newOk) ==
    LET sel == TfSelect(d, workspace, selectOk)
        new == TfNew(d, workspace, newOk)
    IN  IF ~sel.err
        THEN [dir |-> sel.dir, err |-> "nil",
              issued |-> issued \o <<Issued(SelectCmd(workspaceCmd, workspace), FALSE)>>]
        ELSE [dir |-> new.dir, err |-> IF new.err THEN "workspace new" ELSE "nil",
              issued |-> issued \o <<Issued(SelectCmd(workspaceCmd, workspace), TRUE),
                                     Issued(NewCmd(workspaceCmd, workspace), new.err)>>]

\* a switchWorkspace that selects without asking where it is
switchWorkspaceNoShow(d, workspace, tfVersion, showOk, selectOk, newOk) ==
    IF noWorkspaceSupport(tfVersion)
    THEN [dir |-> d, issued |-> <<>>,
          err |-> IF workspace # defaultWorkspace THEN "does not support workspaces"
                  ELSE "nil"]
    ELSE selectOrNew(d, workspace,
                     IF runningZeroPointNine(tfVersion) THEN <<"env">> ELSE <<"workspace">>,
                     <<>>, selectOk, newOk)

\* PlanStepRunner.switchWorkspace: (the directory after, the commands issued
\* in order, the error)
switchWorkspace(d, workspace, tfVersion, showOk, selectOk, newOk) ==
    LET workspaceCmd == IF runningZeroPointNine(tfVersion) THEN <<"env">>
                        ELSE <<"workspace">>
        show == TfShow(d, showOk)
    IN  IF noWorkspaceSupport(tfVersion) /\ workspace # defaultWorkspace
        THEN [dir |-> d, issued |-> <<>>, err |-> "does not support workspaces"]
        ELSE IF noWorkspaceSupport(tfVersion)
        THEN [dir |-> d, issued |-> <<>>, err |-> "nil"]
        ELSE IF runningZeroPointNine(tfVersion)
        THEN selectOrNew(d, workspace, workspaceCmd, <<>>, selectOk, newOk)
        ELSE IF show.err
        THEN [dir |-> d, issued |-> <<Issued(ShowCmd(workspaceCmd), TRUE)>>,
              err |-> "workspace show"]
        ELSE IF TrimSpace(show.output) = workspace
        THEN [dir |-> d, issued |-> <<Issued(ShowCmd(workspaceCmd), FALSE)>>, err |-> "nil"]
        ELSE selectOrNew(d, workspace, workspaceCmd,
                         <<Issued(ShowCmd(workspaceCmd), FALSE)>>, selectOk, newOk)

\* the lines terraform plan prints: the refresh preamble, the separator and
\* the diff, or an error
RefreshSeparator == <<"-", "-", "-">>
PlanOutputs ==
    { << <<"R">>, RefreshSeparator, <<" ", " ", "+", "x">>, <<" ", " ", "~", "y">> >>,
      << <<"E">> >> }

\* regexp ^ {2}[+~-] replaced by the sign
FmtLine(line) ==
    IF Len(line) >= 3 /\ line[1] = " " /\ line[2] = " " /\ line[3] \in {"+", "~", "-"}
    THEN SubSeq(line, 3, Len(line)) ELSE line

\* fmtPlanOutput: what follows the first separator, the signs moved to the
\* start of their lines
fmtPlanOutput(output) ==
    LET seps == {i \in 1..Len(output) : output[i] = RefreshSeparator}
        from == IF seps = {} THEN 1
                ELSE (CHOOSE i \in seps : \A j \in seps : i <= j) + 1
    IN  [k \in 1..(Len(output) - from + 1) |-> FmtLine(output[from + k - 1])]

\* GetProjectFilenamePrefix of a project without a name: the workspace
GetProjectFilenamePrefix(workspace) == workspace

\* PlanStepRunner.Run: (the directory after, the commands issued in order,
\* the output and the error returned)
Run(d, workspace, tfVersion, showOk, selectOk, newOk, planOk, output) ==
    LET sw == switchWorkspace(d, workspace, tfVersion, showOk, selectOk, newOk)
        planCmd == buildPlanCmd(CloneRoot, workspace, StepUser, RepoA, 1, tfVersion,
                                <<>>, <<>>, FALSE)
    IN  IF sw.err # "nil"
        THEN [dir |-> sw.dir, issued |-> sw.issued, output |-> <<>>, err |-> sw.err]
        ELSE IF ~planOk
        THEN [dir |-> [sw.dir EXCEPT !.errorFile[GetProjectFilenamePrefix(workspace)] =
                                         [there |-> TRUE, bytes |-> output]],
              issued |-> sw.issued \o <<Issued(planCmd, TRUE)>>, output |-> output,
              err |-> "plan"]
        ELSE [dir |-> [sw.dir EXCEPT !.errorFile[GetProjectFilenamePrefix(workspace)] = NoFile],
              issued |-> sw.issued \o <<Issued(planCmd, FALSE)>>,
              output |-> fmtPlanOutput(output), err |-> "nil"]

\* one call of Run on the project directory; lastRun keeps how it ended
RunPlanStep(workspace, tfVersion, showOk, selectOk, newOk, planOk, output) ==
    \E run \in {Run(tfdir, workspace, tfVersion, showOk, selectOk, newOk, planOk, output)} :
        /\ tfdir' = [run.dir EXCEPT !.lastRun[workspace] =
                        [ran |-> TRUE, err |-> run.err, output |-> run.output]]
        /\ ret' = [op |-> "Run", workspace |-> workspace, tfVersion |-> tfVersion,
                   issued |-> run.issued, output |-> run.output, err |-> run.err]
        /\ UNCHANGED <<locks, ubp, pullState, dirs, plans, applied, wdLocks, cmds, srv, tf,
                       pullsBucket>>

StepNext ==
    \E workspace \in CmdWorkspaces, tfVersion \in StepVersions, output \in PlanOutputs :
        \E showOk \in BOOLEAN, selectOk \in BOOLEAN, newOk \in BOOLEAN, planOk \in BOOLEAN :
            RunPlanStep(workspace, tfVersion, showOk, selectOk, newOk, planOk, output)

StepSpec == LockInit /\ [][StepNext]_vars

----------------------------------------------------------------------------
(* The stored status of a pull request: the "pulls" bucket of the BoltLocker *)
(* under UpdatePullWithResults, DeleteProjectStatus and DeletePullStatus.    *)

\* the project results of one update: at most MaxResults
MaxResults == 2

ErroredPlanStatus == 0
PlannedPlanStatus == 1
AppliedPlanStatus == 2

\* the pull request at one of two head commits
HeadCommits == {"c1", "c2"}
StatusPull(head) == [Num |-> 1, BaseRepo |-> RepoA, HeadCommit |-> head]

\* fmt.Sprintf("%s::%s::%d", hostname, repo, pull.Num)
pullKey(pull) == <<"h", "::">> \o pull.BaseRepo \o <<"::", ToString(pull.Num)>>

\* models.ProjectResult: the project, and which of Error, Failure,
\* PlanSuccess and ApplySuccess is set
ProjectResult(workspace, repoRelDir, projectName, kind) ==
    [Workspace |-> workspace, RepoRelDir |-> repoRelDir, ProjectName |-> projectName,
     Error |-> kind = "error", Failure |-> kind = "failure",
     PlanSuccess |-> kind = "plan", ApplySuccess |-> kind = "apply"]

\* two projects in the directory "a" that differ in their name only, and
\* the results a command has for them
StatusResults ==
    {ProjectResult(WsDefault, PathA, "", "plan"),
     ProjectResult(WsDefault, PathA, "", "apply"),
     ProjectResult(WsDefault, PathA, "n", "plan"),
     ProjectResult(WsDefault, PathA, "n", "error"),
     ProjectResult(WsDefault, PathB, "", "failure")}

ResultLists == UNION {[1..n -> StatusResults] : n \in 0..MaxResults}

\* getPlanStatus
getPlanStatus(p) ==
    IF p.Error THEN ErroredPlanStatus
    ELSE IF p.Failure THEN ErroredPlanStatus
    ELSE IF p.PlanSuccess THEN PlannedPlanStatus
    ELSE IF p.ApplySuccess THEN AppliedPlanStatus
    ELSE ErroredPlanStatus

\* projectResultToProject
projectResultToProject(p) ==
    [Workspace |-> p.Workspace, RepoRelDir |-> p.RepoRelDir,
     ProjectName |-> p.ProjectName, Status |-> getPlanStatus(p)]

\* lines 271-273: the result is about the stored project
SameProject(res, proj) ==
    /\ res.Workspace = proj.Workspace
    /\ res.RepoRelDir = proj.RepoRelDir
    /\ res.ProjectName = proj.ProjectName

\* lines 264-286, one result: the first stored project it is about gets its
\* status; when there is none the result is appended
mergeResult(projects, res) ==
    LET hits == {i \in 1..Len(projects) : SameProject(res, projects[i])}
    IN  IF hits # {}
        THEN [projects EXCEPT ![CHOOSE i \in hits : \A j \in hits : i <= j].Status =
                                  getPlanStatus(res)]
        ELSE Append(projects, projectResultToProject(res))

\* lines 264-286: the loop over the new results
RECURSIVE mergeResults(_, _)
mergeResults(projects, newResults) ==
    IF newResults = <<>> THEN projects
    ELSE mergeResults(mergeResult(projects, Head(newResults)), Tail(newResults))

\* lines 249-256: one status per result
toStatuses(newResults) ==
    [i \in 1..Len(newResults) |-> projectResultToProject(newResults[i])]

\* BoltLocker.UpdatePullWithResults: (bucket after, the status written)
UpdatePullWithResults(b, pull, newResults) ==
    LET key == pullKey(pull)
        newStatus ==
            IF ~Has(b, key) \/ b[key].Pull.HeadCommit # pull.HeadCommit
            THEN [Pull |-> pull, Projects |-> toStatuses(newResults)]
            ELSE [b[key] EXCEPT !.Projects = mergeResults(@, newResults)]
    IN  [bucket |-> Put(b, key, newStatus), status |-> newStatus]

\* BoltLocker.DeleteProjectStatus: the stored projects of the workspace and
\* directory go, whatever their name
DeleteProjectStatus(b, pull, workspace, repoRelDir) ==
    LET key == pullKey(pull)
    IN  IF ~Has(b, key) THEN b
        ELSE Put(b, key,
                 [b[key] EXCEPT !.Projects =
                     SelectSeq(@, LAMBDA proj :
                         ~(proj.Workspace = workspace /\ proj.RepoRelDir = repoRelDir))])

\* BoltLocker.DeletePullStatus
DeletePullStatus(b, pull) == Delete(b, pullKey(pull))

CallUpdatePullWithResults(pull, newResults) ==
    \E run \in {UpdatePullWithResults(pullsBucket, pull, newResults)} :
        /\ pullsBucket' = run.bucket
        /\ ret' = [op |-> "UpdatePullWithResults", pull |-> pull,
                   newResults |-> newResults, status |-> run.status]
        /\ UNCHANGED <<locks, ubp, pullState, dirs, plans, applied, wdLocks, cmds, srv, tf,
                       tfdir>>

CallDeleteProjectStatus(pull, workspace, repoRelDir) ==
    /\ pullsBucket' = DeleteProjectStatus(pullsBucket, pull, workspace, repoRelDir)
    /\ ret' = [op |-> "DeleteProjectStatus", pull |-> pull, workspace |-> workspace,
               repoRelDir |-> repoRelDir]
    /\ UNCHANGED <<locks, ubp, pullState, dirs, plans, applied, wdLocks, cmds, srv, tf,
                   tfdir>>

CallDeletePullStatus(pull) ==
    /\ pullsBucket' = DeletePullStatus(pullsBucket, pull)
    /\ ret' = [op |-> "DeletePullStatus", pull |-> pull]
    /\ UNCHANGED <<locks, ubp, pullState, dirs, plans, applied, wdLocks, cmds, srv, tf,
                   tfdir>>

StatusNext ==
    \/ \E head \in HeadCommits, newResults \in ResultLists :
          CallUpdatePullWithResults(StatusPull(head), newResults)
    \/ \E head \in HeadCommits, repoRelDir \in Paths :
          CallDeleteProjectStatus(StatusPull(head), WsDefault, repoRelDir)
    \/ \E head \in HeadCommits : CallDeletePullStatus(StatusPull(head))

StatusSpec == LockInit /\ [][StatusNext]_vars

----------------------------------------------------------------------------
(* The lock store under keys that share their characters: a project in a   *)
(* directory below another project's, and a workspace whose name has a "/". *)

\* a project directory below PathA
PathAB == <<"a", "/", "b">>

\* a workspace with a "/" in its name
WsNested == <<"b", "/", "d">>

\* the (project, workspace) pairs of RepoA that the comment parser lets
\* through: a directory that validateDir keeps as it is, a workspace that
\* ValidWorkspace accepts
KeyTriples ==
    {pw \in {[RepoFullName |-> RepoA, Path |-> p] : p \in {PathA, PathAB}}
              \X {WsDefault, WsNested} :
        /\ validateDir(pw[1].Path) = [err |-> FALSE, dir |-> pw[1].Path]
        /\ ValidWorkspace(pw[2])}

\* the locks the callers ask for on those pairs
KeyInputs ==
    {NewLock(pw[1], pw[2], PullOf(RepoA, n), u) :
        pw \in KeyTriples, n \in PullNums, u \in Users}

CallGetLock(p, w) ==
    /\ ret' = [op |-> "GetLock", project |-> p, workspace |-> w,
               lock |-> GetLock(locks, p, w)]
    /\ UNCHANGED <<locks, ubp, pullState, dirs, plans, applied, wdLocks, cmds, srv, tf, tfdir, pullsBucket>>

KeyNext ==
    \/ \E newLock \in KeyInputs : CallTryLock(newLock)
    \/ \E pw \in KeyTriples : CallUnlock(pw[1], pw[2])
    \/ \E pw \in KeyTriples : CallGetLock(pw[1], pw[2])

KeySpec == LockInit /\ [][KeyNext]_vars

----------------------------------------------------------------------------
(* Claims about the lock store *)

\* the locks stored for a project and a workspace
StoredFor(p, w) ==
    {k \in DOMAIN locks :
        /\ Unmarshal(locks[k]).Project = p
        /\ Unmarshal(locks[k]).Workspace = w}

\* the step is a TryLock call that handed out the lock
IsAcquire == ret'.op = "TryLock" /\ ret'.acquired

\* the step is a TryLock call on a key that was taken
IsContended ==
    /\ ret'.op = "TryLock"
    /\ Has(locks, lockKey(ret'.newLock.Project, ret'.newLock.Workspace))

\* the lock stored, before the step, at the key the TryLock of the step asked for
HolderBefore == Unmarshal(locks[lockKey(ret'.newLock.Project, ret'.newLock.Workspace)])

\* C1: whatever the interleaving of TryLock, Unlock and UnlockByPull, at most
\* one lock is stored for a (project, workspace); TryLock hands a key out only
\* when no lock is stored at it, and a stored lock leaves the bucket only by
\* an Unlock, so between an acquisition and the next removal of the key no
\* other TryLock on it is acquired.
C1_MutualExclusion ==
    /\ [](\A p \in Projects, w \in Workspaces : Cardinality(StoredFor(p, w)) <= 1)
    /\ [][/\ (IsAcquire =>
                ~Has(locks, lockKey(ret'.newLock.Project, ret'.newLock.Workspace)))
           /\ ((\E k \in DOMAIN locks : k \notin DOMAIN locks') =>
                ret'.op \in {"Unlock", "UnlockByPull.Unlock"})]_vars

\* a TryLock was acquired on a key that an earlier holder had lost to an
\* Unlock of an UnlockByPull in flight
C1_Witness ==
    /\ ret.op = "TryLock" /\ ret.acquired
    /\ ubp.pc = "unlocking" /\ ubp.removed # {}
    /\ Has(locks, lockKey(ret.newLock.Project, ret.newLock.Workspace))

\* C2: a TryLock on a key held by another pull request returns acquired =
\* false and the holder's stored lock, and leaves the bucket as it was.
C2_ContendedTryLock ==
    [][(IsContended /\ HolderBefore.Pull # ret'.newLock.Pull) =>
            /\ ret'.acquired = FALSE
            /\ ret'.lock = HolderBefore
            /\ locks' = locks]_vars

\* a TryLock of one pull came back with the lock of another, which is stored
C2_Witness ==
    /\ ret.op = "TryLock" /\ ~ret.acquired
    /\ ret.lock.Pull # ret.newLock.Pull
    /\ ret.lock.User # ret.newLock.User
    /\ Unmarshal(locks[lockKey(ret.newLock.Project, ret.newLock.Workspace)]) = ret.lock

\* C3 as stated: a TryLock on a key whose stored lock is held by the calling
\* pull request comes back acquired; only the lock of another pull request
\* comes back not acquired.
C3_SamePullAcquired ==
    [][(IsContended /\ HolderBefore.Pull = ret'.newLock.Pull) =>
            ret'.acquired = TRUE]_vars

\* C3: a TryLock on a key whose stored lock is held by the calling pull
\* request returns acquired = false, as for any taken key, together with the
\* stored lock, and writes nothing; the returned lock names the caller's own
\* pull request, which is all the caller has to tell re-acquisition from
\* contention.
C3_SamePullTryLock ==
    [][(IsContended /\ HolderBefore.Pull = ret'.newLock.Pull) =>
            /\ ret'.acquired = FALSE
            /\ ret'.lock = HolderBefore
            /\ ret'.lock.Pull = ret'.newLock.Pull
            /\ locks' = locks]_vars

\* a TryLock of the holding pull request, made by another user, came back
\* not acquired with the lock its first user stored
C3_Witness ==
    /\ ret.op = "TryLock" /\ ~ret.acquired
    /\ ret.lock.Pull = ret.newLock.Pull
    /\ ret.lock.User # ret.newLock.User
    /\ Unmarshal(locks[lockKey(ret.newLock.Project, ret.newLock.Workspace)]) = ret.lock

\* the locks stored for the pull request number num of the repo
StoredOfPull(repoFullName, num) ==
    {k \in DOMAIN locks :
        /\ Unmarshal(locks[k]).Project.RepoFullName = repoFullName
        /\ Unmarshal(locks[k]).Pull.Num = num}

\* C9: when UnlockByPull(R, N) returns, no stored lock has repo R and pull
\* number N, and the returned slice holds exactly the locks the call removed,
\* each once.
C9_UnlockByPullPost ==
    ret.op = "UnlockByPull" =>
        /\ StoredOfPull(ret.repo, ret.num) = {}
        /\ {ret.locks[i] : i \in 1..Len(ret.locks)} = ret.removed
        /\ Len(ret.locks) = Cardinality(ret.removed)

\* C10: an Unlock of UnlockByPull(R, N) leaves in place every lock whose repo
\* is not R or whose pull number is not N, a repo whose name R is a prefix of
\* included.
C10_UnlockByPullFrame ==
    [][ret'.op = "UnlockByPull.Unlock" =>
          \A k \in DOMAIN locks :
              (\/ Unmarshal(locks[k]).Project.RepoFullName # ubp.repo
               \/ Unmarshal(locks[k]).Pull.Num # ubp.num)
              => (k \in DOMAIN locks' /\ locks'[k] = locks[k])]_vars

----------------------------------------------------------------------------
(* Claims about the plan / apply / delete / close handlers *)

\* the bucket b holds, for the project and the workspace, a lock of the pull q
HeldIn(b, p, w, q) ==
    /\ Has(b, lockKey(p, w))
    /\ Unmarshal(b[lockKey(p, w)]).Pull = PullOf(q[1], q[2])

\* the ProjectResults of the response r
ResultsOf(r) == {r.results[i] : i \in 1..Len(r.results)}

\* the project a ProjectResult is about
ResultProject(r) == ProjectOf(r.pull, r.path)

\* the other pull requests of the repo of q
Rivals(q) == {x \in Pulls : x[1] = q[1] /\ x # q}

Freed(p, w, q) == HeldIn(locks, p, w, q) /\ ~HeldIn(locks', p, w, q)

\* the step is a plan or apply run that ended in Error on (p, w) after its
\* lock step
FailedOn(p, w) ==
    /\ ret'.op \in {"plan", "apply"}
    /\ \E r \in ResultsOf(ret') :
          /\ ResultProject(r) = p /\ r.ws = w
          /\ r.kind = "Error" /\ r.locked

Removed(k) == k \in DOMAIN locks /\ k \notin DOMAIN locks'

C8_ArtifactImpliesLock ==
    \A a \in plans : HeldIn(locks, ProjectOf(a.pull, a.path), a.ws, a.pull)

----------------------------------------------------------------------------
(* Claims about the lock store under interleaving *)

\* C11: UnlockByPull(R, N) is atomic with respect to the TryLock and Unlock
\* calls of others: the lock each of its Unlocks takes out of the bucket is,
\* at the moment it is removed, a lock of the pull request number N (that its
\* repo is R is C10); a lock another pull request acquired, after the View, at
\* a key the View saw held by N is left alone.
C11_UnlockByPullAtomic ==
    [][ret'.op = "UnlockByPull.Unlock" =>
          \A k \in DOMAIN locks :
              Removed(k) => Unmarshal(locks[k]).Pull.Num = ubp.num]_vars

----------------------------------------------------------------------------
(* Claims about the command handler *)

\* the commands that are with their executor for the pull q and the workspace w
RunningFor(q, w) == {c \in cmds : c.pull = q /\ c.ws = w}

\* the step is a command that came in and ended with the outcome o
Arrives(o) == ret'.op = "command" /\ ret'.outcome = o

\* the step changes nothing but the last answer
OnlyAnswers == UNCHANGED <<locks, ubp, pullState, dirs, plans, applied, wdLocks, cmds, srv, tf, tfdir, pullsBucket>>

C13_RefusedWhenLocked ==
    [][Arrives("locked") =>
          /\ cmds' = cmds /\ wdLocks' = wdLocks
          /\ locks' = locks /\ dirs' = dirs /\ plans' = plans /\ applied' = applied
          /\ \E c \in cmds' :
                /\ c.pull = ret'.pull /\ c.ws = ret'.ws
                /\ wdKey(c.pull, c.ws) \in wdLocks']_vars

\* a command was refused while a command on its pull request and workspace,
\* which had planned before, was running
C13_Witness ==
    /\ ret.op = "command" /\ ret.outcome = "locked"
    /\ RunningFor(ret.pull, ret.ws) # {}
    /\ cloneDir(ret.pull, ret.ws) \in dirs

\* C14: the working dir locks that are taken are those of the running
\* commands; a command that ends, whether its executor answered (success,
\* Failure or Error) or panicked, has released its lock, so that a command
\* that arrives for the same (repo, pull, workspace) afterwards is not refused.
C14_MutexReleased ==
    /\ [](wdLocks = {wdKey(c.pull, c.ws) : c \in cmds})
    /\ [][\A c \in cmds \ cmds' :
            /\ ret'.op \in {"plan", "apply", "panic"}
            /\ wdKey(c.pull, c.ws) \notin wdLocks'
            /\ wdTryLock(wdLocks', wdKey(c.pull, c.ws)).acquired]_vars

\* a command ended in a panic and the lock of its workspace is free, while a
\* command on the other workspace is still running
C14_Witness ==
    /\ ret.op = "panic"
    /\ wdKey(ret.pull, ret.ws) \notin wdLocks
    /\ cmds # {}

\* C15: every state a host reports for a pull request that is not open is
\* parsed to Closed, and a command on such a pull request ends before the
\* working dir lock: it is answered with a comment (or logged), takes no lock,
\* makes no clone, runs no executor and changes nothing.
C15_ClosedPullNeverExecutes ==
    /\ [](/\ \A host \in {"Github", "Gitlab"} :
               /\ \A st \in HostStates(host, "closed") : ParsePull(host, st) = "Closed"
               /\ \A st \in HostStates(host, "open") : ParsePull(host, st) = "Open"
          /\ \A c \in cmds : pullState[c.pull] = "open")
    /\ [][(ret'.op = "command" /\ pullState[ret'.pull] = "closed") =>
              /\ ret'.outcome \in {"logged", "closed"}
              /\ OnlyAnswers]_vars
    /\ [][ret'.op \in {"plan", "apply", "panic"} =>
              \E c \in cmds \ cmds' : pullState[c.pull] = "open"]_vars

\* a command on the merge request, which is closed or merged, was answered
\* with the comment while a command on the open pull request was running
C15_Witness ==
    /\ ret.op = "command" /\ ret.outcome = "closed"
    /\ HostOf(ret.pull) = "Gitlab"
    /\ pullState[ret.pull] = "closed"
    /\ cmds # {}

----------------------------------------------------------------------------
(* Claims about one run over several projects *)

\* the paths of the ProjectResults rs, in their order
ResultPaths(rs) == [i \in 1..Len(rs) |-> rs[i].path]

\* the ProjectResults rs are results of the pull q and the workspace w
ResultsFor(rs, q, w) == \A i \in 1..Len(rs) : rs[i].pull = q /\ rs[i].ws = w

\* the paths ps are in lexicographic order, each once
Ascending(ps) == \A i \in 1..Len(ps) - 1 : BytesLess(ps[i], ps[i + 1])

\* the state an executor starts from
Here == [locks |-> locks, plans |-> plans, applied |-> applied, sent |-> <<>>]

\* C16: a plan or apply run over several projects returns one ProjectResult
\* per project, in the order of the projects (for apply: the plans the walk
\* found, or the one at the -d directory); the result of a project is what
\* the project alone would have got, so a tool failure in one project gives
\* an Error for that project and for no other, and the later projects run.
C16_OneResultPerProject ==
    /\ [][(ret'.op = "apply" /\ ret'.top = "none") =>
            LET rs == ret'.results
                q  == rs[1].pull
                w  == rs[1].ws
            IN  /\ rs # <<>>
                /\ ResultsFor(rs, q, w)
                /\ \/ ResultPaths(rs) = FoundPlans(q, w)
                   \/ Len(rs) = 1 /\ Artifact(q, w, rs[1].path) \in plans]_vars
    /\ [][(ret'.op = "plan" /\ ret'.top = "none") =>
            /\ ret'.results # <<>>
            /\ ResultsFor(ret'.results, ret'.results[1].pull, ret'.results[1].ws)
            /\ Ascending(ResultPaths(ret'.results))]_vars
    /\ [](\A n \in PullNums, outs \in [1..2 -> ApplyOutcomes], j \in 1..2 :
            LET q     == <<RepoA, n>>
                paths == <<PathA, PathB>>
                all   == ApplyLoop(Here, q, WsDefault, "alice", paths, outs)
                alone == apply(Here, q, WsDefault, paths[j], "alice", outs[j])
            IN  /\ Len(all.results) = 2
                /\ all.results[j] = alone.result
                /\ outs[j] = "applyErr" => alone.result.kind \in {"Error", "Failure"})
    /\ [](\A n \in PullNums, outs \in [1..2 -> PlanOutcomes], j \in 1..2 :
            LET q     == <<RepoA, n>>
                paths == <<PathA, PathB>>
                all   == PlanLoop(Here, q, WsDefault, "alice", paths, outs)
                alone == PlanProject(Here, q, WsDefault, paths[j], "alice", outs[j])
            IN  /\ Len(all.results) = 2
                /\ all.results[j] = alone.result
                /\ outs[j] = "planErr" => alone.result.kind \in {"Error", "Failure"})

\* an apply run over two plans failed on the first after its lock step and
\* applied the second
C16_Witness ==
    /\ ret.op = "apply" /\ Len(ret.results) = 2
    /\ ret.results[1].kind = "Error" /\ ret.results[1].locked
    /\ ret.results[2].kind = "ApplySuccess"
    /\ ret.results[1].path = PathA /\ ret.results[2].path = PathB

\* C17: the commit status set for a response is Failed when the response has
\* a top-level Error or Failure or when a ProjectResult has an Error or a
\* Failure, and Success otherwise, a response without project results
\* included; it is never Pending.
C17_AggregateStatus ==
    /\ UpdateProjectResult(Response("plan", "none", <<>>)) = "Success"
    /\ ret.op \in {"plan", "apply"} =>
          /\ UpdateProjectResult(ret) \in {"Failed", "Success"}
          /\ UpdateProjectResult(ret) = "Failed" <=>
                \/ ret.top \in {"Error", "Failure"}
                \/ \E r \in ResultsOf(ret) : r.kind \in {"Error", "Failure"}

\* a run whose first project succeeded and whose second did not has the
\* status Failed
C17_Witness ==
    /\ ret.op \in {"plan", "apply"} /\ Len(ret.results) = 2
    /\ ret.results[1].kind \in {"PlanSuccess", "ApplySuccess"}
    /\ ret.results[2].kind \in {"Error", "Failure"}
    /\ UpdateProjectResult(ret) = "Failed"

----------------------------------------------------------------------------
(* Claims about the apply executor and the pull close *)

\* the top-level answer of an apply of the pull number n of RepoA
GateOf(n, approval, dir) == ApplyGate(<<RepoA, n>>, WsDefault, approval, dir)

C19_OneNotificationPerApply ==
    /\ \A n \in PullNums, path \in Paths, outcome \in ApplyOutcomes :
          LET q   == <<RepoA, n>>
              pre == PreExecute(locks, q, WsDefault, path, "alice", outcome)
              one == apply(Here, q, WsDefault, path, "alice", outcome)
          IN  /\ pre.kind # "none" => one.st.sent = <<>>
              /\ pre.kind = "none" =>
                    one.st.sent = <<ApplyResult(q, WsDefault, "alice", outcome # "applyErr")>>
              /\ one.result.kind = "ApplySuccess" =>
                    one.st.sent = <<ApplyResult(q, WsDefault, "alice", TRUE)>>
    /\ ret.op = "apply" =>
          /\ Len(ret.sent) <= Len(ret.results)
          /\ Cardinality({i \in 1..Len(ret.results) : ret.results[i].kind = "ApplySuccess"})
                <= Cardinality({i \in 1..Len(ret.sent) : ret.sent[i].Success})
          /\ Len(ret.sent)
                <= Cardinality({i \in 1..Len(ret.results) : ret.results[i].locked})
          /\ \A i \in 1..Len(ret.sent) :
                /\ ret.results # <<>>
                /\ ret.sent[i].Pull = ret.results[1].pull
                /\ ret.sent[i].Workspace = ret.results[1].ws

\* an apply of one plan ended in an Error after the tool had succeeded: the
\* notification says Success
C19_Witness ==
    /\ ret.op = "apply" /\ Len(ret.results) = 1
    /\ ret.results[1].kind = "Error"
    /\ Len(ret.sent) = 1 /\ ret.sent[1].Success

\* the locks stored in the bucket b for the pull request number num of the repo
LocksOfPull(b, repoFullName, num) ==
    {k \in DOMAIN b :
        /\ Unmarshal(b[k]).Project.RepoFullName = repoFullName
        /\ Unmarshal(b[k]).Pull.Num = num}

\* C20: on a pull close, UnlockByPull and Workspace.Delete are both attempted
\* whatever became of the other: when the unlock has worked no lock of the
\* pull request is stored, whether or not the delete worked, and when the
\* delete has worked the tree of the pull request with its plan files is
\* gone, whether or not the unlock worked; the trees and plan files of other
\* pull requests stay.
C20_PullCloseBothHalves ==
    /\ [](ret.op = "pullClose" =>
            /\ ret.unlocked => LocksOfPull(locks, ret.pull[1], ret.pull[2]) = {}
            /\ ret.deleted =>
                  /\ \A d \in dirs : d[1] # ret.pull
                  /\ \A a \in plans : a.pull # ret.pull)
    /\ [][ret'.op = "pullClose" =>
            /\ \A d \in dirs : d[1] # ret'.pull => d \in dirs'
            /\ \A a \in plans : a.pull # ret'.pull => a \in plans']_vars

----------------------------------------------------------------------------
(* Claims about the lock admin handlers *)

\* the key a request asks for, when its id is there and decodes
AsksFor(req, un) == req.ok /\ req.id # <<>> /\ ~un.err

NoLockId(req) == ~req.ok \/ req.id = <<>>

\* C22: GET /lock and DELETE /locks answer 400, without calling the lock
\* service, when the id is missing or does not decode; 500 when the lock
\* service returns an error; 404 when no lock matches the id; 200 only when
\* a lock was found (GET) or deleted (DELETE).  GET changes nothing, and a
\* DELETE answered 400, 404 or 500 posts no comment and changes no lock, no
\* directory and no plan.
C22_AdminResponses ==
    /\ [][ret'.op = "getLock" =>
            (locks' = locks /\ dirs' = dirs /\ plans' = plans /\ applied' = applied)]_vars
    /\ [](\A req \in RequestIds, svcOk \in BOOLEAN :
            LET un  == QueryUnescape(req.id)
                got == getLock(locks, req, svcOk)
            IN  /\ (NoLockId(req) \/ un.err) => (got.code = 400 /\ ~got.called)
                /\ (~NoLockId(req) /\ ~un.err) =>
                      /\ got.called
                      /\ ~svcOk => got.code = 500
                      /\ (svcOk /\ ~Has(locks, un.s)) => got.code = 404
                      /\ (svcOk /\ Has(locks, un.s)) =>
                            (got.code = 200 /\ got.lock = Local(Unmarshal(locks[un.s]))))
    /\ [](\A req \in RequestIds :
          \A svcOk \in BOOLEAN, delOk \in BOOLEAN, statusOk \in BOOLEAN, commentOk \in BOOLEAN :
            LET un  == PathUnescape(req.id)
                run == deleteLock(AdminStore, req, svcOk, delOk, statusOk, commentOk)
            IN  /\ (NoLockId(req) \/ un.err) => (run.ret.code = 400 /\ ~run.ret.called)
                /\ (~NoLockId(req) /\ ~un.err) =>
                      /\ run.ret.called
                      /\ ~svcOk => run.ret.code = 500
                      /\ (svcOk /\ ~Has(locks, un.s)) => run.ret.code = 404
                      /\ (svcOk /\ Has(locks, un.s)) =>
                            (run.ret.code = 200 /\ ~Has(run.st.locks, un.s))
                /\ run.ret.code \in {400, 404, 500} =>
                      (run.st = AdminStore /\ run.ret.comment = "none"))

----------------------------------------------------------------------------
(* Claims about the clone directories *)

\* the clone directories a step made or removed, the plan files it wrote or
\* removed
ChangedDirs == (dirs' \ dirs) \cup (dirs \ dirs')

ChangedPlans == (plans' \ plans) \cup (plans \ plans')

FilesIn(ps, d) == {a \in ps : cloneDir(a.pull, a.ws) = d}

\* C25: after a Clone that returned no error its directory is there and
\* holds no file that was there before, a plan file of an earlier plan
\* included; the directories of the other workspaces and pull requests and
\* the files in them are as they were; a second Clone right after the first
\* leaves what the first left.
C25_CloneIsFresh ==
    /\ [][(ret'.op = "Clone" /\ ret'.outcome = "ok") =>
            LET d == cloneDir(ret'.pull, ret'.ws)
            IN  /\ d \in dirs'
                /\ FilesIn(plans', d) = {}
                /\ dirs' \ {d} = dirs \ {d}
                /\ plans' \ FilesIn(plans', d) = plans \ FilesIn(plans, d)]_vars
    /\ [](\A q \in WorkspacePulls, w \in CmdWorkspaces :
            LET once  == Clone(dirs, plans, q, w, "ok")
                twice == Clone(once.dirs, once.plans, q, w, "ok")
            IN  /\ ~once.err /\ ~twice.err
                /\ twice.dirs = once.dirs
                /\ twice.plans = once.plans
                /\ FilesIn(once.plans, cloneDir(q, w)) = {})

\* a Clone has succeeded: its directory is empty of plan files, while the
\* other workspace of the pull request and another pull request keep theirs
C25_Witness ==
    /\ ret.op = "Clone" /\ ret.outcome = "ok"
    /\ cloneDir(ret.pull, ret.ws) \in dirs
    /\ FilesIn(plans, cloneDir(ret.pull, ret.ws)) = {}
    /\ \E w \in CmdWorkspaces \ {ret.ws} : FilesIn(plans, cloneDir(ret.pull, w)) # {}
    /\ \E q \in WorkspacePulls \ {ret.pull} : FilesIn(plans, cloneDir(q, ret.ws)) # {}

\* C26: GetWorkspace changes nothing; it returns no error after a Clone of
\* the key that returned none, and an error after a Delete of the pull
\* request and after a Clone of the key that failed at the git clone or at
\* the checkout.
C26_GetWorkspaceAfterClone ==
    /\ [][ret'.op = "GetWorkspace" => (dirs' = dirs /\ plans' = plans)]_vars
    /\ [][(ret'.op = "Clone" /\ ret'.outcome = "ok") =>
            ~GetWorkspace(dirs', ret'.pull, ret'.ws).err]_vars
    /\ [][(ret'.op = "Delete" /\ ret'.outcome = "ok") =>
            \A w \in CmdWorkspaces : GetWorkspace(dirs', ret'.pull, w).err]_vars
    /\ [][(ret'.op = "Clone" /\ ret'.outcome \in {"cloneErr", "checkoutErr"}) =>
            GetWorkspace(dirs', ret'.pull, ret'.ws).err]_vars

----------------------------------------------------------------------------
(* Claims about the shutdown *)

\* the shutdown is past the drain wait: server.Shutdown is next, or Start has
\* returned
PastDrain == srv.pc \in {"drained", "returned"}

\* C27 (as stated): after a shutdown signal no new command starts executing,
\* and the HTTP server shutdown and the process exit happen only after the
\* number of in-progress operations has reached zero
C27_NoStartAfterSignal ==
    /\ [](PastDrain => srv.drainer.InProgressOps = 0 /\ cmds = {})
    /\ [][srv.pc # "serving" => cmds' \subseteq cmds]_vars

\* C27: once the goroutine of waitForDrain has entered ShutdownBlocking no new
\* command starts executing (between the signal and that moment one still
\* can, and it is counted); the drainer counts exactly the commands in
\* progress; and the HTTP server shutdown and the return of Start happen only
\* after the number of in-progress operations has reached zero
C27_NoStartOnceShuttingDown ==
    /\ [](/\ srv.drainer.InProgressOps = Cardinality(cmds)
          /\ PastDrain => srv.drainer.ShuttingDown /\ srv.drainer.InProgressOps = 0)
    /\ [][/\ srv.drainer.ShuttingDown => cmds' \subseteq cmds
          /\ srv.drainer.ShuttingDown => srv'.drainer.ShuttingDown
          /\ PastDrain' /\ ~PastDrain => cmds = {}]_vars

\* a command is refused while the drain wait goes on for a command that
\* started before the drainer was shutting down
C27_Witness ==
    /\ srv.pc = "waiting"
    /\ srv.drainer.ShuttingDown
    /\ ret.op = "StartOp"
    /\ ~ret.started
    /\ cmds # {}

\* C28: after a shutdown signal, when every command in progress comes to its
\* end, waitForDrain returns and Start shuts the server down and returns; and
\* the drain wait does not last once nothing is in progress and the drainer
\* is shutting down
C28_DrainEnds ==
    /\ (srv.pc = "signalled") ~> (srv.pc = "returned")
    /\ (srv.pc = "waiting" /\ srv.drainer.ShuttingDown /\ cmds = {}) ~> PastDrain

\* Start has returned after a drain wait that logged two commands in progress
C28_Witness ==
    /\ srv.pc = "returned"
    /\ srv.goroutine = "done"
    /\ srv.logged = 2
    /\ cmds = {}

----------------------------------------------------------------------------
(* Claims about crashSafeExec *)

\* C29: a call of crashSafeExec whose child exits or prints the crash banner
\* once its output is taken returns, whatever the amount of output: the call
\* is never left blocked on cmd.Wait or on reading the pipe
C29_ExecReturns ==
    /\ (tf.pc = "wait") ~> (tf.pc = "closing")
    /\ (tf.pc = "reading") ~> (tf.pc = "returned")

----------------------------------------------------------------------------
(* Claims about the comment parser *)

\* the parsed comment has no word, has one word, spans more than one line
ParsedEmpty == ret.op = "Parse" /\ Fields(ret.comment) = <<>>
ParsedSingle == ret.op = "Parse" /\ Len(Fields(ret.comment)) = 1 /\ ~IsMultiLine(ret.comment)
ParsedMultiLine == ret.op = "Parse" /\ IsMultiLine(ret.comment)

\* C30 (as stated): Parse returns Ignore for every comment that is empty,
\* consists of a single token, or spans more than one line, whatever its
\* first token is
C30_IgnoredComments ==
    ParsedEmpty \/ ParsedSingle \/ ParsedMultiLine => ret.result = "Ignore"

\* C30: Parse returns Ignore for every comment that is empty or spans more
\* than one line, whatever its first token is; a comment of a single token
\* gets the did-you-mean response when the token is "terraform", the help
\* response when it is a name the bot answers to on that host, and Ignore in
\* every other case
C30_IgnoredUnlessNamed ==
    /\ ParsedEmpty \/ ParsedMultiLine => ret.result = "Ignore"
    /\ ParsedSingle =>
          LET word == Fields(ret.comment)[1]
          IN  ret.result = IF word = "terraform" THEN "DidYouMean"
                           ELSE IF word \in ExecutableNames(ret.host) THEN "Help"
                           ELSE "Ignore"

\* a comment of two lines whose first word is the tool's name was ignored
C30_Witness ==
    /\ ParsedMultiLine
    /\ Fields(ret.comment)[1] = "terraform"
    /\ ret.result = "Ignore"

----------------------------------------------------------------------------
(* Claims about the flags of a comment *)

\* what the flag set read from the parsed comment
FlagsRead == FlagSetParse(ret.tokens, NewFlagSet)

\* a cleaned path relative to the repo root: "." or elements that are neither
\* empty nor "." nor ".."
CleanRelative(dir) ==
    \/ dir = <<".">>
    \/ /\ dir # <<>>
       /\ \A i \in 1..Len(SplitPath(dir)) :
             SplitPath(dir)[i] \notin {<<>>, <<".">>, <<".", ".">>}

\* the path, cleaned, leaves the repo root
Escapes(dir) == SplitPath(Clean(dir))[1] = <<".", ".">>

\* C31: every Command that Parse produces for plan or apply has a Dir that is
\* empty or a cleaned repo-relative path (no trailing "/", "." for the root,
\* no ".." element) and a Workspace that is not "/" and has no ".." in it; a
\* comment whose -d value leaves the repo root after cleaning, or whose -w
\* value is invalid, gets an error response and no Command
C31_CommandDirAndWorkspace ==
    ret.op = "ParseFlags" =>
        /\ ret.result.kind = "Command" =>
              /\ ret.result.Command.Dir = <<>> \/ CleanRelative(ret.result.Command.Dir)
              /\ ret.result.Command.Workspace # <<"/">>
              /\ ~Contains(ret.result.Command.Workspace, <<".", ".">>)
        /\ ( /\ FlagsRead.err = "nil"
             /\ \/ FlagsRead.dir # <<>> /\ Escapes(FlagsRead.dir)
                \/ FlagsRead.workspace = <<"/">>
                \/ Contains(FlagsRead.workspace, <<".", ".">>) )
           => ret.result.kind = "ParseError" /\ ret.result.Command = NoCommand

\* a -d value that needed cleaning became the Dir of a Command
C31_Witness ==
    /\ ret.op = "ParseFlags"
    /\ ret.result.kind = "Command"
    /\ FlagsRead.dir = <<"/", "a", "/", ".">>
    /\ ret.result.Command.Dir = <<"a">>

\* the place of the "--" that ends the flags, 0 when there is none: a "--"
\* that is the value of -d or -w does not end them
RECURSIVE DashAt(_, _)
DashAt(tokens, i) ==
    IF i > Len(tokens) THEN 0
    ELSE IF tokens[i] \in {TokDir, TokDirLong, TokWorkspace, TokWorkspaceLong}
    THEN DashAt(tokens, i + 2)
    ELSE IF tokens[i] = TokDash THEN i
    ELSE DashAt(tokens, i + 1)

\* the tokens before and after the "--" of the parsed comment
BeforeDash == SubSeq(ret.tokens, 1, DashAt(ret.tokens, 1) - 1)
AfterDash == SubSeq(ret.tokens, DashAt(ret.tokens, 1) + 1, Len(ret.tokens))

\* each token of after, quoted, in order
EachQuoted(after) == [i \in 1..Len(after) |-> Quote(after[i])]

StoredAgain(flag, again) ==
    /\ Len(again) >= Len(flag) + 2
    /\ again[1] = "\"" /\ again[Len(again)] = "\""
    /\ SelectSeq(SubSeq(again, 2, Len(again) - 1), LAMBDA c : c # "\\")
         = SelectSeq(flag, LAMBDA c : c # "\\")
    /\ Len(again) = Len(flag) + 2
                    + Len(SelectSeq(flag, LAMBDA c : c \in {"\"", "\\"}))

----------------------------------------------------------------------------
(* Claims about the plan step *)

\* env/{workspace}.tfvars in the project directory of the built command, as
\* a cleaned path
EnvFileOf(path, workspace) ==
    Clean(path \o <<"/", "e", "n", "v", "/">> \o workspace \o <<".tfvars">>)

\* the places of the built command that hold "-var-file"
VarFileAt == {i \in 1..Len(ret.args) : ret.args[i] = <<"-var-file">>}

\* the places of the built command that hold a configured extra argument or
\* an extra argument of the comment
ExtraArgAt ==
    {i \in 1..Len(ret.args) :
        \/ \E k \in 1..Len(ret.extraArgs) : ret.args[i] = ret.extraArgs[k]
        \/ \E k \in 1..Len(ret.Command.Flags) : ret.args[i] = ret.Command.Flags[k]}

\* C34 (as stated): when env/{workspace}.tfvars exists in the project
\* directory the plan command gets the -var-file argument for it prepended,
\* ahead of the configured and the comment-supplied extra arguments; when the
\* file does not exist no -var-file argument is added
C34_VarFilePrepended ==
    ret.op = "planCmd" =>
        IF ret.envFileThere
        THEN \E i \in VarFileAt :
                /\ i < Len(ret.args)
                /\ ret.args[i + 1] = EnvFileOf(ret.path, ret.Command.Workspace)
                /\ \A j \in ExtraArgAt : i + 1 < j
        ELSE VarFileAt = {}

\* C34: when env/{workspace}.tfvars exists in the project directory the plan
\* command gets "-var-file" and the path of that file as its last two
\* arguments, after the fixed arguments, the variables, the configured and
\* the comment-supplied extra arguments; when the file does not exist no
\* -var-file argument is added
C34_VarFileAppended ==
    ret.op = "planCmd" =>
        IF ret.envFileThere
        THEN /\ VarFileAt = {Len(ret.args) - 1}
             /\ ret.args[Len(ret.args)] = EnvFileOf(ret.path, ret.Command.Workspace)
             /\ \A j \in ExtraArgAt : j < Len(ret.args) - 1
             /\ ret.args[1] = <<"plan">>
        ELSE VarFileAt = {}

\* a plan command with a configured argument, two arguments of the comment
\* and the -var-file of the workspace
C34_Witness ==
    /\ ret.op = "planCmd"
    /\ ret.envFileThere
    /\ ret.extraArgs # <<>>
    /\ Len(ret.Command.Flags) = 2
    /\ ret.Command.Workspace = <<"w">>
    /\ ret.args[Len(ret.args) - 1] = <<"-var-file">>

----------------------------------------------------------------------------
(* Claims about the lock key *)

\* the lock the last call met in the store, if it met one
MetLock ==
    CASE ret.op = "TryLock" /\ ~ret.acquired -> ret.lock
      [] ret.op = "Unlock" /\ ret.found -> ret.lock
      [] ret.op = "GetLock" /\ ret.lock # NoLock -> ret.lock
      [] OTHER -> NoLock

\* the (project, workspace) the last call was about
AskedFor ==
    CASE ret.op = "TryLock" -> <<ret.newLock.Project, ret.newLock.Workspace>>
      [] ret.op \in {"Unlock", "GetLock"} -> <<ret.project, ret.workspace>>
      [] OTHER -> <<NoLock.Project, NoLock.Workspace>>

\* C35 (as stated): the lock key is injective on valid inputs: two different
\* (repo full name, project path, workspace) triples never have the same key,
\* so a lock on one (project, workspace) never blocks a TryLock on, is never
\* returned for and is never deleted by an operation on a different one
C35_LockKeyInjective ==
    /\ \A a, b \in KeyTriples : lockKey(a[1], a[2]) = lockKey(b[1], b[2]) => a = b
    /\ MetLock # NoLock => <<MetLock.Project, MetLock.Workspace>> = AskedFor

\* a TryLock on PathA in the workspace "b/d" was refused because of the lock
\* on PathAB in the default workspace
C35_Blocked ==
    /\ ret.op = "TryLock" /\ ~ret.acquired
    /\ ret.newLock.Project.Path = PathA /\ ret.newLock.Workspace = WsNested
    /\ ret.lock.Project.Path = PathAB /\ ret.lock.Workspace = WsDefault

----------------------------------------------------------------------------
(* Claims about the admin delete and the working dir lock *)

\* the working dir lock of the lock the delete handler has answered with
WdKeyOfDeleted ==
    wdKey(<<ret'.lock.Pull.BaseRepo, ret'.lock.Pull.Num>>, ret'.lock.Workspace)

\* C36: an admin delete removes the working directory of the lock's (repo,
\* pull, workspace) only when it got the working dir lock of that triple,
\* which no command holds then, and the working dir locks are after the
\* handler what they were before it, on every path; when a command holds
\* that working dir lock the directory and its plan files are left as they
\* are while the project lock is still deleted
C36_DeleteUnderWorkingDirLock ==
    [][ret'.op = "deleteLock" =>
          /\ wdLocks' = wdLocks
          /\ (dirs' # dirs \/ plans' # plans) =>
                /\ ret'.code = 200
                /\ WdKeyOfDeleted \notin wdLocks
                /\ dirs \ dirs' \subseteq
                      {cloneDir(<<ret'.lock.Pull.BaseRepo, ret'.lock.Pull.Num>>,
                                ret'.lock.Workspace)}
          /\ (ret'.code = 200 /\ WdKeyOfDeleted \in wdLocks) =>
                /\ dirs' = dirs /\ plans' = plans
                /\ Has(locks, lockKey(ret'.lock.Project, ret'.lock.Workspace))
                /\ ~Has(locks', lockKey(ret'.lock.Project, ret'.lock.Workspace))]_vars

\* a lock was deleted while a command held the working dir lock of its pull
\* request and workspace: the lock is gone, the directory is there and the
\* command still holds the working dir lock
C36_Witness ==
    /\ ret.op = "deleteLock" /\ ret.code = 200
    /\ ret.lock.Pull.BaseRepo # NoRepo
    /\ wdKey(<<ret.lock.Pull.BaseRepo, ret.lock.Pull.Num>>, ret.lock.Workspace) \in wdLocks
    /\ cloneDir(<<ret.lock.Pull.BaseRepo, ret.lock.Pull.Num>>, ret.lock.Workspace) \in dirs
    /\ ~Has(locks, lockKey(ret.lock.Project, ret.lock.Workspace))

----------------------------------------------------------------------------
(* Claims about PlanStepRunner.Run *)

\* the commands of the Run that has just returned
RunIssued == ret'.issued

\* the places of a plan command, of a workspace command of any kind, and of
\* the workspace commands show, select and new
PlanAt == {i \in 1..Len(RunIssued) : RunIssued[i].args[1] = <<"plan">>}
WorkspaceCmdAt ==
    {i \in 1..Len(RunIssued) : RunIssued[i].args[1] \in {<<"workspace">>, <<"env">>}}
SubCmdAt(sub) == {i \in WorkspaceCmdAt : RunIssued[i].args[2] = sub}

\* C37: Run issues the plan command only after the workspace switch
\* succeeded, as its last command, with terraform in the requested workspace;
\* below 0.9 it issues no workspace command and a workspace other than the
\* default one is an error before any command; from 0.10 on "workspace show"
\* is the first command and "select" is issued only when show printed another
\* workspace than the requested one; "new" is issued only right after a
\* "select" that failed; 0.9.x says "env" instead of "workspace" and issues
\* no "show"
C37_SwitchProtocol ==
    [][ret'.op = "Run" =>
          /\ \A i \in PlanAt :
                /\ i = Len(RunIssued)
                /\ \A j \in WorkspaceCmdAt : j < i
                /\ i > 1 => ~RunIssued[i - 1].err
                /\ ~noWorkspaceSupport(ret'.tfVersion) => tfdir'.current = ret'.workspace
                /\ noWorkspaceSupport(ret'.tfVersion) => ret'.workspace = defaultWorkspace
          /\ ret'.err = "nil" => PlanAt # {}
          /\ noWorkspaceSupport(ret'.tfVersion) =>
                /\ WorkspaceCmdAt = {}
                /\ ret'.workspace # defaultWorkspace =>
                      (RunIssued = <<>> /\ ret'.err # "nil")
          /\ runningZeroPointNine(ret'.tfVersion) =>
                /\ \A i \in WorkspaceCmdAt : RunIssued[i].args[1] = <<"env">>
                /\ SubCmdAt(<<"show">>) = {}
                /\ SubCmdAt(<<"select">>) = {1}
          /\ (~noWorkspaceSupport(ret'.tfVersion) /\ ~runningZeroPointNine(ret'.tfVersion)) =>
                /\ \A i \in WorkspaceCmdAt : RunIssued[i].args[1] = <<"workspace">>
                /\ SubCmdAt(<<"show">>) = {1}
                /\ SubCmdAt(<<"select">>) \subseteq {2}
                /\ SubCmdAt(<<"select">>) # {} =>
                      (~RunIssued[1].err /\ tfdir.current # ret'.workspace)
                /\ (~RunIssued[1].err /\ tfdir.current # ret'.workspace) =>
                      SubCmdAt(<<"select">>) # {}
          /\ \A i \in SubCmdAt(<<"new">>) :
                /\ i - 1 \in SubCmdAt(<<"select">>)
                /\ RunIssued[i - 1].err
          /\ \A i \in SubCmdAt(<<"select">>) :
                RunIssued[i].err => i + 1 \in SubCmdAt(<<"new">>)]_vars

\* a Run of a later version asked where it was, failed to select the
\* workspace, created it and planned
C37_Witness ==
    /\ ret.op = "Run" /\ ret.tfVersion = <<0, 11>> /\ ret.err = "nil"
    /\ Len(ret.issued) = 4
    /\ ret.issued[2].err /\ ret.issued[3].args[2] = <<"new">>
    /\ ret.issued[4].args[1] = <<"plan">>
    /\ tfdir.current = WsStaging

\* C38 (as stated): after any sequence of Run calls for a project directory
\* and workspace, the .tfplan-error file of the workspace exists if and only
\* if the most recent Run returned an error: a successful Run leaves no error
\* file and a failed Run leaves the file holding that run's output
C38_ErrorFileIffLastRunFailed ==
    \A w \in CmdWorkspaces :
        /\ tfdir.errorFile[w].there <=> (tfdir.lastRun[w].ran /\ tfdir.lastRun[w].err # "nil")
        /\ tfdir.errorFile[w].there => tfdir.errorFile[w].bytes = tfdir.lastRun[w].output

\* the most recent Run of the default workspace returned the error of
\* "workspace show" and there is no error file
C38_FailedWithoutFile ==
    /\ ret.op = "Run" /\ ret.workspace = WsDefault /\ ret.err = "workspace show"
    /\ ~tfdir.errorFile[WsDefault].there

----------------------------------------------------------------------------
(* Claims about the stored status of a pull request *)

\* the update that has just been made: its key, what was stored before it,
\* whether it merged, and what is stored after it
UpdKey == pullKey(ret'.pull)
UpdOld == pullsBucket[UpdKey].Projects
UpdNew == pullsBucket'[UpdKey].Projects
UpdMerges ==
    /\ Has(pullsBucket, UpdKey)
    /\ pullsBucket[UpdKey].Pull.HeadCommit = ret'.pull.HeadCommit

\* the results of the update that are about the project proj, by place
ResultsAbout(proj) ==
    {k \in 1..Len(ret'.newResults) : SameProject(ret'.newResults[k], proj)}

\* the status of the last result about proj
LastStatusFor(proj) ==
    getPlanStatus(ret'.newResults[CHOOSE k \in ResultsAbout(proj) :
                                      \A l \in ResultsAbout(proj) : l <= k])

\* the update merged as C39 says: the stored projects stay where they are,
\* one that no result is about keeps its status, one that a result is about
\* has the status of the last such result, and the projects of the results
\* about no stored project follow them, with the status of their last result
MergedAsStated ==
    /\ Len(UpdNew) >= Len(UpdOld)
    /\ \A i \in 1..Len(UpdOld) :
          /\ SameProject(UpdNew[i], UpdOld[i])
          /\ UpdNew[i].Status = IF ResultsAbout(UpdOld[i]) = {} THEN UpdOld[i].Status
                                ELSE LastStatusFor(UpdOld[i])
    /\ \A k \in 1..Len(ret'.newResults) :
          (\A i \in 1..Len(UpdOld) : ~SameProject(ret'.newResults[k], UpdOld[i])) =>
              \E j \in (Len(UpdOld) + 1)..Len(UpdNew) :
                  SameProject(ret'.newResults[k], UpdNew[j])
    /\ \A j \in (Len(UpdOld) + 1)..Len(UpdNew) :
          /\ ResultsAbout(UpdNew[j]) # {}
          /\ UpdNew[j].Status = LastStatusFor(UpdNew[j])
          /\ \A i \in 1..(j - 1) : ~SameProject(UpdNew[j], UpdNew[i])

\* the update replaced: the stored status is the new results, one project
\* each, in order, for the pull request of the update
ReplacedAsStated ==
    /\ pullsBucket'[UpdKey].Pull = ret'.pull
    /\ Len(UpdNew) = Len(ret'.newResults)
    /\ \A k \in 1..Len(UpdNew) : UpdNew[k] = projectResultToProject(ret'.newResults[k])

\* C39 (as stated): UpdatePullWithResults merges or replaces by head commit:
\* with the same head commit stored, every stored project not named in the
\* results keeps its status and position, a stored project matching a result
\* on (workspace, dir, project name) gets that result's status and unmatched
\* results are appended; with no stored status or another head commit the
\* stored status becomes exactly the new results
C39_MergeOrReplace ==
    [][ret'.op = "UpdatePullWithResults" =>
          /\ Has(pullsBucket', UpdKey)
          /\ ret'.status = pullsBucket'[UpdKey]
          /\ IF UpdMerges THEN MergedAsStated ELSE ReplacedAsStated]_vars

\* no project twice in the sequence
NoDuplicates(projects) ==
    \A i, j \in 1..Len(projects) : SameProject(projects[i], projects[j]) => i = j

\* C39 on a stored status that holds each project once: the update merges
\* or replaces as stated, whatever its results are
C39_MergeOrReplaceOfDistinct ==
    [][(/\ ret'.op = "UpdatePullWithResults"
        /\ Has(pullsBucket, UpdKey) => NoDuplicates(UpdOld)) =>
          /\ Has(pullsBucket', UpdKey)
          /\ ret'.status = pullsBucket'[UpdKey]
          /\ IF UpdMerges THEN MergedAsStated ELSE ReplacedAsStated]_vars

\* an update merged a stored status that holds the same project twice: the
\* first of the two has the result's status and the second has not
C39_SecondKeepsStatus ==
    /\ ret.op = "UpdatePullWithResults" /\ Len(ret.newResults) = 1
    /\ Len(ret.status.Projects) = 2
    /\ SameProject(ret.newResults[1], ret.status.Projects[1])
    /\ SameProject(ret.newResults[1], ret.status.Projects[2])
    /\ ret.status.Projects[1].Status = getPlanStatus(ret.newResults[1])
    /\ ret.status.Projects[2].Status # getPlanStatus(ret.newResults[1])

\* C40 (as stated): after any sequence of UpdatePullWithResults,
\* DeleteProjectStatus and DeletePullStatus calls the stored status of a pull
\* request never holds two project entries with the same (workspace, dir,
\* project name), whatever results each update carries
C40_NoDuplicateProjects ==
    \A key \in DOMAIN pullsBucket : NoDuplicates(pullsBucket[key].Projects)

\* an update of a pull request without stored status, with two results for
\* one project, has stored the project twice
C40_StoredTwice ==
    /\ ret.op = "UpdatePullWithResults" /\ Len(ret.newResults) = 2
    /\ SameProject(ret.newResults[1], ret.newResults[2])
    /\ Len(pullsBucket[pullKey(ret.pull)].Projects) = 2
    /\ ~NoDuplicates(pullsBucket[pullKey(ret.pull)].Projects)

====
